---- MODULE Spec2Model ----
(***************************************************************************)
(* Model of the concurrency and timing core of video-detection-ai:         *)
(*   - VideoPipeline (client/core/pipeline.py): the capture thread and its *)
(*     bounded frame queue, read by the consumer through read_frame;       *)
(*   - NetworkWorker / GeminiWorker (client/utils/api_client.py,           *)
(*     client/utils/gemini_client.py): the analysis dispatcher;            *)
(*   - SmartMonitor (client/app.py): the main loop and its cooldown state. *)
(* Each component has its own specification over the same variables:       *)
(* SpecCapture (capture thread and consumer), SpecWorker (dispatcher and   *)
(* its callers), SpecMain (main loop, its dispatcher and the clock),       *)
(* SpecSystem (the three threads together), SpecSession (the same with     *)
(* the user's quit and cleanup), SpecStart (the pipeline from its          *)
(* construction), SpecParse (the response normalization on its own),       *)
(* SpecAnswer (one task from submit_task to the callback), SpecFrames      *)
(* (the pixel buffers of the frames handed between the threads) and        *)
(* SpecLifecycle (a dispatcher started and stopped at will).               *)
(***************************************************************************)
EXTENDS Integers, Sequences, FiniteSets, TLC

\* ------------------------------------------------------------------ bounds
\* Frames the source adapter delivers in one run of the model.
MaxFrames == 4
\* Tasks handed to submit_task in one run of the model.
MaxTasks == 2
\* Seconds the clock advances during one session of the main loop.
MaxElapsed == 5
\* Tokens of the response texts handed to _parse_response on its own.
MaxTextLen == 4
\* Frames of the video file that a file source plays.
FileLen == 3
\* Pixel buffers allocated in one run of the model.
MaxBuffers == 12
\* Calls of start() on a dispatcher in one run of the model.
MaxStarts == 2

\* ------------------------------------------------------- program constants
\* queue.Queue(maxsize=2) of VideoPipeline.
FrameQueueMaxsize == 2
\* queue.Queue() of the dispatchers' task queue: maxsize 0, no capacity.
TaskQueueMaxsize == 0
\* config.get('cooldown_seconds', 5.0): seconds between two uploads.
cooldown_seconds == 5
\* self.alert_cooldown_seconds = 2.0
alert_cooldown_seconds == 2
\* self.alert_display_duration = 5.0
alert_display_duration == 5

VARIABLES
    \* --- VideoPipeline / CameraConnector
    source_kind,       \* "camera", "file_loop" (looping file), "file_once"
    pipeline_running,  \* VideoPipeline.running
    is_opened,         \* CameraConnector.is_opened
    cap_open,          \* CameraConnector.cap is there and cap.isOpened()
    frame_queue,       \* VideoPipeline.frame_queue, oldest first
    cap_pc,            \* position of the capture thread
    cap_frame,         \* the frame the capture thread is publishing (0: none)
    frame_count,       \* CameraConnector.frame_count: frames read so far
    stop_pc,           \* position of VideoPipeline.stop(): "none", "join", "done"
    target_fps,        \* VideoPipeline.target_fps (0: the playback is not paced)
    last_frame_time,   \* VideoPipeline.last_frame_time
    file_pos,          \* frames read from the file since it was opened (0
                       \* for a camera, which has no position)
    \* --- history of the capture queue (observations, not program state)
    published,         \* frames put on frame_queue, in order
    returned,          \* what read_frame returned: [frame, recent]
    pass_reads,        \* frames that read_frame got from the file in this
                       \* playback pass (0 for a camera, which has none)
    \* --- NetworkWorker / GeminiWorker
    backend,           \* "network" (NetworkWorker) or "gemini" (GeminiWorker)
    callback,          \* "none", "plain" (returns), "raising" (may raise)
    worker_running,    \* worker.running
    worker_pc,         \* position of the worker thread
    task_queue,        \* worker.task_queue: task ids, oldest first
    result_queue,      \* worker.result_queue: results, oldest first
    cur_task,          \* the task the worker thread holds (0: none)
    cur_result,        \* the result the worker thread is delivering
    in_handler,        \* GeminiWorker: inside "except Exception" of the call
    last_analysis_result, \* SmartMonitor.last_analysis_result (callback)
    \* --- history of the dispatcher (observations, not program state)
    submitted,         \* submit_task calls so far
    dropped,           \* tasks submit_task dropped on queue.Full
    taken,             \* task ids the worker took from task_queue, in order
    failed,            \* [task, kind]: calls that ended in an exception
    enqueued,          \* results put on result_queue, in order
    called_back,       \* results handed to the callback, in order
    polled,            \* results get_result returned, in order
    \* --- SmartMonitor
    main_pc,           \* position of the main loop
    now,               \* time.time(), in whole seconds
    current_time,      \* the loop's current_time (set before the upload gate)
    has_person,        \* the detector's answer for the current frame
    result,            \* the loop's result (what get_result returned)
    last_upload_time,
    last_alert_time,
    alert_count,
    analysis_count,
    alert_display_start_time,
    last_alert_result,
    \* --- history of the main loop (observations, not program state)
    uploads,           \* the current_time of every submit_task call
    alerts,            \* [t, delivered] for every _trigger_alert call
    notified,          \* the times of the AlertRecords sent to the notifier
    evidence,          \* the _save_alert_image calls: file name, written or not
    ret,               \* the loop's ret: "frame" or "empty" after read_frame
    start_result,      \* what VideoPipeline.start() met in connect() and
                       \* what it returned (outcome "none": not called yet)
    \* --- the callers of the dispatcher
    wstop_pc,          \* position of the dispatcher's stop(): "none", "join", "done"
    last_polled,       \* what the latest get_result() returned: "result",
                       \* "none" (None), "unpolled" before the first call
    \* --- _parse_response on its own
    response_text,     \* the text handed to _parse_response
    parsed,            \* what it returned (no keys: not called yet)
    \* --- the pixel buffers behind the frames
    heap,              \* heap[b]: the pixels in buffer b (a numpy array)
    adapter_ref,       \* the buffer of the adapter's latest frame (0: none)
    adapter_reads,     \* frames the adapter has read
    adapter_pc,        \* capture thread: "read", or "put" with a frame read
    queue_refs,        \* the Capture Queue: [ref, pixels] per frame, the
                       \* buffer and what it held when it was put
    main_ref,          \* the buffer of the main loop's frame (0: none)
    frame_pc,          \* main loop: "read", "detect", "submit", "draw"
    task_refs,         \* the AnalysisTasks not yet done: [ref, pixels]
    \* --- the threads of a dispatcher that is started and stopped at will
    threads,           \* the position of each thread that start() spawned
    lifecycle_pc       \* the caller of start() and stop(): "idle", "join"

capture_vars == <<source_kind, pipeline_running, is_opened, cap_open,
                  frame_queue, cap_pc, cap_frame, frame_count, stop_pc, target_fps,
                  last_frame_time, file_pos, published, returned,
                  pass_reads>>

worker_vars == <<backend, callback, worker_running, worker_pc, task_queue,
                 result_queue, cur_task, cur_result, in_handler,
                 last_analysis_result, submitted, dropped, taken, failed,
                 enqueued, called_back, polled>>

main_vars == <<main_pc, now, current_time, has_person, result,
               last_upload_time, last_alert_time, alert_count,
               analysis_count, alert_display_start_time, last_alert_result,
               uploads, alerts, notified, evidence>>

\* The main loop's view of the pipeline.
loop_vars == <<ret, start_result>>

caller_vars == <<wstop_pc, last_polled>>

parse_vars == <<response_text, parsed>>

frame_vars == <<heap, adapter_ref, adapter_reads, adapter_pc, queue_refs,
                main_ref, frame_pc, task_refs>>

thread_vars == <<threads, lifecycle_pc>>

rest_vars == <<loop_vars, caller_vars, parse_vars, frame_vars, thread_vars>>

vars == <<capture_vars, worker_vars, main_vars, loop_vars, caller_vars,
          parse_vars, frame_vars, thread_vars>>

SourceKinds == {"camera", "file_loop", "file_once"}

\* ------------------------------------------------------------ queue.Queue
\* queue.Queue.full(): a queue built with maxsize <= 0 is unbounded.
QueueFull_Unbounded(q, maxsize) == FALSE
QueueFull(q, maxsize) == maxsize > 0 /\ Len(q) >= maxsize

\* queue.Queue.get_nowait() on a non-empty queue: FIFO, the head leaves.
GetNowait_Lifo(q) == [item |-> q[Len(q)], rest |-> SubSeq(q, 1, Len(q) - 1)]
GetNowait(q) == [item |-> Head(q), rest |-> Tail(q)]

\* get_nowait() on an empty queue raises queue.Empty at once (get() would
\* wait for an item).
GetNowaitReturnsWhenEmpty_Waits == FALSE
GetNowaitReturnsWhenEmpty == TRUE

\* The last n elements of s (all of s when it is shorter).
LastN(s, n) == IF Len(s) <= n THEN s ELSE SubSeq(s, Len(s) - n + 1, Len(s))

SeqToSet(s) == {s[i] : i \in 1..Len(s)}

Min(a, b) == IF a <= b THEN a ELSE b

\* ---------------------------------------------------------- VideoPipeline
IsVideoFile(kind) == kind # "camera"

\* self.target_fps = target_fps if self.is_video_file else 0, with
\* target_fps from the configuration (default 0).
TargetFpsOf(kind) == IF IsVideoFile(kind) THEN {0, 30} ELSE {0}

\* if self.is_video_file and self.target_fps > 0: the playback is paced.
Paced == IsVideoFile(source_kind) /\ target_fps > 0

\* CameraConnector.connect() opens the source and reads a first frame from
\* it to see that the connection works: a file is then one frame in.
PosAfterConnect(kind) == IF IsVideoFile(kind) THEN 1 ELSE 0

\* VideoPipeline.__init__ followed by a successful start(): the source is
\* connected, running is set and the capture thread is spawned.
InitCapture ==
    /\ source_kind \in SourceKinds
    /\ pipeline_running = TRUE
    /\ is_opened = TRUE
    /\ cap_open = TRUE
    /\ frame_queue = <<>>
    /\ cap_pc = "loop"
    /\ cap_frame = 0
    /\ frame_count = 0
    /\ stop_pc = "none"
    /\ target_fps \in TargetFpsOf(source_kind)
    /\ last_frame_time = 0
    /\ file_pos = PosAfterConnect(source_kind)
    /\ published = <<>>
    /\ returned = <<>>
    /\ pass_reads = 0

\* CameraConnector.is_connected():
\* self.is_opened and self.cap is not None and self.cap.isOpened()
is_connected == is_opened /\ cap_open

\* VideoPipeline.is_running(): self.running and self.camera.is_connected()
is_running == pipeline_running /\ is_connected

\* What CameraConnector.connect() can meet: the source cannot be opened,
\* the first frame cannot be read, OpenCV raises, or all is well.
ConnectOutcomes == {"cannot_open", "no_first_frame", "exception", "ok"}

\* connect() returns True only after it has read a first frame.
ConnectSucceeds_OpenIsEnough(outcome) == outcome \in {"ok", "no_first_frame"}
ConnectSucceeds(outcome) == outcome = "ok"

\* self.cap.isOpened() after connect(): the source is open after a
\* successful connect; it is not when it could not be opened or was released
\* for want of a first frame; when cv2.VideoCapture raises, self.cap is
\* still the capture object that was there before.
CapOpenAfterConnect(outcome, before) ==
    CASE outcome = "ok" -> TRUE
      [] outcome = "exception" -> before
      [] OTHER -> FALSE

\* while self.running: and, for a paced file, the wait for the frame
\* interval followed by self.last_frame_time = time.time().
CaptureLoop ==
    /\ cap_pc = "loop"
    /\ cap_pc' = IF pipeline_running THEN "read" ELSE "exited"
    /\ last_frame_time' = IF pipeline_running /\ Paced THEN now
                          ELSE last_frame_time
    /\ UNCHANGED <<source_kind, pipeline_running, is_opened, frame_queue,
                   cap_frame, frame_count, stop_pc, target_fps, file_pos,
                   published, returned, pass_reads>>
    /\ UNCHANGED cap_open

\* CameraConnector.read_frame() succeeds when the source is open and has a
\* frame; it fails when the source is not open, when a file has no frame
\* left (at its end, or where it cannot be read further: after MaxFrames
\* frames in all), or when the camera does not deliver.
SourceHasFrame ==
    /\ is_opened
    /\ cap_open
    /\ IsVideoFile(source_kind) => file_pos < FileLen
ReadFails ==
    \/ ~is_opened
    \/ ~cap_open
    \/ ~IsVideoFile(source_kind)
    \/ file_pos >= FileLen
    \/ frame_count >= MaxFrames

\* success, frame = self.camera.read_frame(), with success = True: the
\* source is open and, if it is a file, has a frame left.
CaptureReadOk ==
    /\ cap_pc = "read"
    /\ SourceHasFrame
    /\ frame_count < MaxFrames
    /\ frame_count' = frame_count + 1
    /\ cap_frame' = frame_count + 1
    /\ file_pos' = IF IsVideoFile(source_kind) THEN file_pos + 1 ELSE 0
    /\ pass_reads' = IF IsVideoFile(source_kind) THEN pass_reads + 1 ELSE 0
    /\ cap_pc' = "check_full"
    /\ UNCHANGED <<source_kind, pipeline_running, is_opened, frame_queue,
                   stop_pc, target_fps, last_frame_time, published,
                   returned>>
    /\ UNCHANGED cap_open

\* self.last_frame_time = 0.0 after the file was opened again.
PacingAfterRestart_Kept(last) == last
PacingAfterRestart(last) == 0

\* camera.read_frame() fails on a looping file (its end, or an error):
\* release, connect again, reset the pacing and go on; a failed connect
\* ends the loop.
CaptureReadFailLoopingFile ==
    /\ cap_pc = "read"
    /\ source_kind = "file_loop"
    /\ ReadFails
    /\ \E outcome \in ConnectOutcomes :
        /\ is_opened' = ConnectSucceeds(outcome)
        /\ cap_open' = CapOpenAfterConnect(outcome, FALSE)
        /\ cap_pc' = IF ConnectSucceeds(outcome) THEN "loop" ELSE "exited"
        /\ file_pos' = IF outcome = "ok" THEN PosAfterConnect(source_kind)
                       ELSE 0
        /\ pass_reads' = IF ConnectSucceeds(outcome) THEN 0 ELSE pass_reads
        /\ last_frame_time' = IF ConnectSucceeds(outcome)
                              THEN PacingAfterRestart(last_frame_time)
                              ELSE last_frame_time
    /\ UNCHANGED <<source_kind, pipeline_running, frame_queue, cap_frame,
                   frame_count, stop_pc, target_fps, published, returned>>

\* camera.read_frame() fails on a file that does not loop: the loop ends.
CaptureReadFailFile ==
    /\ cap_pc = "read"
    /\ source_kind = "file_once"
    /\ ReadFails
    /\ cap_pc' = "exited"
    /\ UNCHANGED <<source_kind, pipeline_running, is_opened, frame_queue,
                   cap_frame, frame_count, stop_pc, target_fps,
                   last_frame_time, file_pos, published, returned,
                   pass_reads>>
    /\ UNCHANGED cap_open

\* camera.read_frame() fails on a camera: one connect; the loop goes on when
\* it succeeds and ends when it fails.
CaptureReadFailCamera ==
    /\ cap_pc = "read"
    /\ source_kind = "camera"
    /\ ReadFails
    /\ \E outcome \in ConnectOutcomes :
        /\ is_opened' = (is_opened \/ ConnectSucceeds(outcome))
        /\ cap_open' = CapOpenAfterConnect(outcome, cap_open)
        /\ cap_pc' = IF ConnectSucceeds(outcome) THEN "loop" ELSE "exited"
    /\ UNCHANGED <<source_kind, pipeline_running, frame_queue, cap_frame,
                   frame_count, stop_pc, target_fps, last_frame_time,
                   file_pos, published, returned, pass_reads>>

\* if self.frame_queue.full(): whether the loop goes on to evict.
EvictsWhenFull_Never(q) == FALSE
EvictsWhenFull(q) == QueueFull(q, FrameQueueMaxsize)

CaptureCheckFull ==
    /\ cap_pc = "check_full"
    /\ cap_pc' = IF EvictsWhenFull(frame_queue) THEN "evict" ELSE "put"
    /\ UNCHANGED <<source_kind, pipeline_running, is_opened, frame_queue,
                   cap_frame, frame_count, stop_pc, target_fps,
                   last_frame_time, file_pos, published, returned,
                   pass_reads>>
    /\ UNCHANGED cap_open

\* self.frame_queue.get_nowait() (queue.Empty is swallowed).
CaptureEvict ==
    /\ cap_pc = "evict"
    /\ frame_queue' = IF frame_queue = <<>> THEN <<>>
                      ELSE GetNowait(frame_queue).rest
    /\ cap_pc' = "put"
    /\ UNCHANGED <<source_kind, pipeline_running, is_opened, cap_frame,
                   frame_count, stop_pc, target_fps, last_frame_time,
                   file_pos, published, returned, pass_reads>>
    /\ UNCHANGED cap_open

\* self.frame_queue.put_nowait(frame.copy()) (queue.Full skips the frame).
CapturePut ==
    /\ cap_pc = "put"
    /\ IF ~QueueFull(frame_queue, FrameQueueMaxsize)
       THEN /\ frame_queue' = Append(frame_queue, cap_frame)
            /\ published' = Append(published, cap_frame)
       ELSE UNCHANGED <<frame_queue, published>>
    /\ cap_frame' = 0
    /\ cap_pc' = "loop"
    /\ UNCHANGED <<source_kind, pipeline_running, is_opened, frame_count,
                   stop_pc, target_fps, last_frame_time, file_pos, returned,
                   pass_reads>>
    /\ UNCHANGED cap_open

\* VideoPipeline.read_frame(), called by the consumer: get_nowait() hands
\* out a frame, or queue.Empty makes it return (False, None).
ReadFrame ==
    /\ stop_pc = "none"
    /\ frame_queue # <<>>
    /\ frame_queue' = GetNowait(frame_queue).rest
    /\ returned' = Append(returned,
                          [frame  |-> GetNowait(frame_queue).item,
                           recent |-> SeqToSet(LastN(published, 2))])
    /\ UNCHANGED <<source_kind, pipeline_running, is_opened, cap_pc,
                   cap_frame, frame_count, stop_pc, target_fps,
                   last_frame_time, file_pos, published, pass_reads>>
    /\ UNCHANGED cap_open

\* VideoPipeline.stop(): self.running = False, then the join.
PipelineStop ==
    /\ stop_pc = "none"
    /\ pipeline_running' = FALSE
    /\ stop_pc' = "join"
    /\ UNCHANGED <<source_kind, is_opened, frame_queue, cap_pc, cap_frame,
                   frame_count, target_fps, last_frame_time, file_pos,
                   published, returned, pass_reads>>
    /\ UNCHANGED cap_open

\* thread.join(timeout=2.0) returns (the thread ended, or the timeout
\* passed), then self.camera.release().
PipelineStopRelease ==
    /\ stop_pc = "join"
    /\ is_opened' = FALSE
    /\ cap_open' = FALSE
    /\ stop_pc' = "done"
    /\ UNCHANGED <<source_kind, pipeline_running, frame_queue, cap_pc,
                   cap_frame, frame_count, target_fps, last_frame_time,
                   file_pos, published, returned, pass_reads>>

\* VideoPipeline.__init__: nothing is connected, running is False and there
\* is no capture thread.
InitConstructed ==
    /\ source_kind \in SourceKinds
    /\ pipeline_running = FALSE
    /\ is_opened = FALSE
    /\ cap_open = FALSE
    /\ frame_queue = <<>>
    /\ cap_pc = "unstarted"
    /\ cap_frame = 0
    /\ frame_count = 0
    /\ stop_pc = "none"
    /\ target_fps \in TargetFpsOf(source_kind)
    /\ last_frame_time = 0
    /\ file_pos = 0
    /\ published = <<>>
    /\ returned = <<>>
    /\ pass_reads = 0

\* VideoPipeline.start(): if not self.camera.connect(): return False;
\* otherwise running is set, the capture thread is spawned and True is
\* returned.
PipelineStart ==
    /\ start_result.outcome = "none"
    /\ cap_pc = "unstarted"
    /\ \E outcome \in ConnectOutcomes :
        /\ start_result' = [outcome |-> outcome,
                            success |-> ConnectSucceeds(outcome)]
        /\ IF ConnectSucceeds(outcome)
           THEN /\ is_opened' = (outcome = "ok")
                /\ pipeline_running' = TRUE
                /\ cap_pc' = "loop"
           ELSE UNCHANGED <<is_opened, pipeline_running, cap_pc>>
        /\ file_pos' = IF outcome = "ok" THEN PosAfterConnect(source_kind)
                       ELSE 0
        /\ cap_open' = CapOpenAfterConnect(outcome, cap_open)
    /\ UNCHANGED <<source_kind, frame_queue, cap_frame, frame_count, stop_pc,
                   target_fps, last_frame_time, published, returned,
                   pass_reads, ret>>

\* ------------------------------------------------------- response texts
\* A response text is a sequence of tokens; a token stands for a run of
\* characters that the parser treats as a unit.
Tok_Space == " "
\* The three backquotes that open a markdown code block, with and without
\* the word json after them.
Tok_FenceJson == "<fence>json"
Tok_Fence == "<fence>"
Tok_Open == "{"
Tok_Close == "}"

\* Tokens that are a "key": value member of a JSON object (with the comma
\* that separates it from the next one).
MemberTokens ==
    {"is_danger:true", "is_danger:false", "confidence:0.9", "confidence:1.5",
     "confidence:-0.2", "confidence:high", "confidence:NaN",
     "reasoning:fall", "reasoning:x", "alert_type:fall", "alert_message:help"}

\* The key of a member.
MemberKey(tok) ==
    CASE tok \in {"is_danger:true", "is_danger:false"} -> "is_danger"
      [] tok \in {"confidence:0.9", "confidence:1.5", "confidence:-0.2",
                  "confidence:high", "confidence:NaN"} -> "confidence"
      [] tok \in {"reasoning:fall", "reasoning:x"} -> "reasoning"
      [] tok = "alert_type:fall" -> "alert_type"
      [] tok = "alert_message:help" -> "alert_message"
      [] OTHER -> "none"

\* str(value) of a member whose value is a string.
TextValue(tok) ==
    CASE tok \in {"reasoning:fall", "alert_type:fall"} -> <<"fall">>
      [] tok = "reasoning:x" -> <<"x">>
      [] tok = "alert_message:help" -> <<"help">>
      [] OTHER -> <<>>

\* float('nan'): json.loads reads the literal NaN as this float. It stands
\* outside the hundredths of every other confidence of the model.
NaN == 0 - 100000

\* a < b on floats: false whenever one of them is NaN.
FloatLess(a, b) == a # NaN /\ b # NaN /\ a < b

\* float(value) of a confidence member, in hundredths ("high" is a string
\* that float() rejects: see FloatRaises).
ConfidenceValue(tok) ==
    CASE tok = "confidence:0.9" -> 90
      [] tok = "confidence:1.5" -> 150
      [] tok = "confidence:-0.2" -> 0 - 20
      [] tok = "confidence:NaN" -> NaN
      [] OTHER -> 50

\* The keywords of the fallback scan: "danger" and its three Chinese
\* counterparts (written here in pinyin).
Keywords == {"danger", "weixian", "yichang", "shoushang"}

\* str.lower() of a token.
Lower_Identity(tok) == tok
Lower(tok) == IF tok = "DANGER" THEN "danger" ELSE tok

\* keyword in token: the token's characters contain the keyword's.
TokenContains(tok, kw) ==
    \/ tok = kw
    \/ kw = "danger" /\ tok \in {"is_danger:true", "is_danger:false"}

\* any(keyword in response_text.lower() for keyword in [...])
HasKeyword(text) ==
    \E i \in 1..Len(text) : \E kw \in Keywords :
        TokenContains(Lower(text[i]), kw)

\* The response texts the reasoning backend answers with in this model: a
\* fenced JSON object that reports a danger, and a plain sentence.
Responses ==
    { <<Tok_FenceJson, Tok_Open, "is_danger:true", "confidence:1.5",
        "reasoning:fall", Tok_Close, Tok_Fence>>,
      <<"all", "calm">> }

\* str.strip(): leading and trailing whitespace removed.
RECURSIVE StripLeft(_)
StripLeft(t) ==
    IF t # <<>> /\ Head(t) = Tok_Space THEN StripLeft(Tail(t)) ELSE t

RECURSIVE StripRight(_)
StripRight(t) ==
    IF t # <<>> /\ t[Len(t)] = Tok_Space
    THEN StripRight(SubSeq(t, 1, Len(t) - 1)) ELSE t

Strip(t) == StripRight(StripLeft(t))

\* The markdown fence markers removed from the two ends, then strip().
Unfence(t) ==
    LET a == IF t # <<>> /\ Head(t) \in {Tok_FenceJson, Tok_Fence}
             THEN Tail(t) ELSE t
        b == IF a # <<>> /\ a[Len(a)] = Tok_Fence
             THEN SubSeq(a, 1, Len(a) - 1) ELSE a
    IN  Strip(b)

\* str.find('{'): the first position of tok in t, 0 when there is none.
Find(t, tok) ==
    IF \E i \in 1..Len(t) : t[i] = tok
    THEN CHOOSE i \in 1..Len(t) :
            t[i] = tok /\ \A j \in 1..(i - 1) : t[j] # tok
    ELSE 0

\* str.rfind('}'): the last position of tok in t, 0 when there is none.
RFind(t, tok) ==
    IF \E i \in 1..Len(t) : t[i] = tok
    THEN CHOOSE i \in 1..Len(t) :
            t[i] = tok /\ \A j \in (i + 1)..Len(t) : t[j] # tok
    ELSE 0

\* json.loads succeeds on a slice that is one object: "{", members (and
\* whitespace), "}".
JsonLoads(t) ==
    /\ Len(t) >= 2
    /\ t[1] = Tok_Open
    /\ t[Len(t)] = Tok_Close
    /\ \A i \in 2..(Len(t) - 1) : t[i] \in MemberTokens \cup {Tok_Space}

\* The position of the member json.loads keeps for a key (the last one
\* with that key), 0 when the object has none.
LastMember(t, key) ==
    LET idx == {i \in 1..Len(t) : MemberKey(t[i]) = key}
    IN  IF idx = {} THEN 0 ELSE CHOOSE i \in idx : \A j \in idx : j <= i

\* json_data.get(key, default) on a loaded object, through bool(), str()
\* and float() (in hundredths for the confidence).
JsonIsDanger(t) ==
    LET i == LastMember(t, "is_danger") IN i # 0 /\ t[i] = "is_danger:true"

JsonText(t, key) ==
    LET i == LastMember(t, key) IN IF i = 0 THEN <<>> ELSE TextValue(t[i])

JsonReasoning(t) == JsonText(t, "reasoning")

JsonConfidence(t) ==
    LET i == LastMember(t, "confidence")
    IN  IF i = 0 THEN 50 ELSE ConfidenceValue(t[i])

\* float(json_data.get("confidence", 0.5)) raises ValueError.
FloatRaises(t) ==
    LET i == LastMember(t, "confidence") IN i # 0 /\ t[i] = "confidence:high"

\* max(0.0, min(1.0, c)), in hundredths: min keeps 1.0 unless c < 1.0, and
\* max keeps 0.0 unless that minimum is above it.
Clamp_LowerOnly(c) == IF FloatLess(0, c) THEN c ELSE 0
Clamp(c) ==
    LET m == IF FloatLess(c, 100) THEN c ELSE 100
    IN  IF FloatLess(0, m) THEN m ELSE 0

AllKeys == {"raw_response", "is_danger", "alert_type", "alert_message",
            "reasoning", "confidence"}

\* The dictionary _parse_response starts from.
DefaultResult(text) ==
    [raw_response |-> text, is_danger |-> FALSE, alert_type |-> <<>>,
     alert_message |-> <<>>, reasoning |-> <<>>, confidence |-> 50,
     keys |-> AllKeys]

\* The slice _parse_response hands to json.loads: from the first "{" to the
\* last "}" of the cleaned text (empty when they are not in that order, no
\* slice at all, <<"none">>, when one of them is missing).
JsonSlice(text) ==
    LET clean == Unfence(Strip(text))
        json_start == Find(clean, Tok_Open)
        json_end == RFind(clean, Tok_Close)
    IN  IF json_start = 0 \/ json_end = 0 THEN <<"none">>
        ELSE IF json_start <= json_end
             THEN SubSeq(clean, json_start, json_end) ELSE <<>>

\* The handler _parse_response ends in: "none" (no exception),
\* "JSONDecodeError" or "Exception" (the ValueError of float()).
ParseError(text) ==
    LET json_str == JsonSlice(text)
    IN  IF json_str = <<"none">> THEN "none"
        ELSE IF ~JsonLoads(json_str) THEN "JSONDecodeError"
        ELSE IF FloatRaises(json_str) THEN "Exception"
        ELSE "none"

\* NetworkWorker._parse_response / GeminiWorker._parse_response. The
\* fields are assigned one by one, so those assigned before float() raises
\* stay; both handlers only set reasoning to the text.
ParseResponse(text) ==
    LET json_str == JsonSlice(text)
        extracted == [DefaultResult(text) EXCEPT
                         !.is_danger = JsonIsDanger(json_str),
                         !.alert_type = JsonText(json_str, "alert_type"),
                         !.alert_message = JsonText(json_str, "alert_message"),
                         !.reasoning = JsonReasoning(json_str)]
    IN  IF json_str = <<"none">>
        THEN [DefaultResult(text) EXCEPT
                 !.reasoning = text,
                 !.is_danger = HasKeyword(text)]
        ELSE IF ~JsonLoads(json_str)
        THEN [DefaultResult(text) EXCEPT !.reasoning = text]
        ELSE IF FloatRaises(json_str)
        THEN [extracted EXCEPT !.reasoning = text]
        ELSE [extracted EXCEPT !.confidence = Clamp(JsonConfidence(json_str))]

\* The dictionary GeminiWorker puts on the result queue when the call
\* raised: it has no alert_type and no alert_message.
ErrorResult(kind) ==
    [raw_response |-> <<"API call failed", kind>>, is_danger |-> FALSE,
     alert_type |-> <<>>, alert_message |-> <<>>,
     reasoning |-> <<"API call error", kind>>, confidence |-> 0,
     keys |-> {"raw_response", "is_danger", "reasoning", "confidence"}]

\* None, where the program holds no result.
NoResult == [DefaultResult(<<>>) EXCEPT !.keys = {}]

\* ------------------------------------------- NetworkWorker / GeminiWorker
Backends == {"network", "gemini"}
Callbacks == {"none", "plain", "raising"}

\* What a remote call can end in, besides an answer: the transport fails
\* (requests.exceptions.RequestException, or the Gemini client raising),
\* or the frame cannot be encoded.
CallFailures == {"transport_failure", "encode_error"}

\* The worker after __init__ and start(callback).
InitWorkerWith(cbs) ==
    /\ backend \in Backends
    /\ callback \in cbs
    /\ worker_running = TRUE
    /\ worker_pc = "check"
    /\ task_queue = <<>>
    /\ result_queue = <<>>
    /\ cur_task = 0
    /\ cur_result = NoResult
    /\ in_handler = FALSE
    /\ last_analysis_result = NoResult
    /\ submitted = 0
    /\ dropped = 0
    /\ taken = <<>>
    /\ failed = {}
    /\ enqueued = <<>>
    /\ called_back = <<>>
    /\ polled = <<>>

\* submit_task(frame, query): put_nowait on the task queue; queue.Full is
\* logged and the task is dropped.
submit_task ==
    /\ submitted' = submitted + 1
    /\ IF QueueFull(task_queue, TaskQueueMaxsize)
       THEN /\ dropped' = dropped + 1
            /\ UNCHANGED task_queue
       ELSE /\ task_queue' = Append(task_queue, submitted + 1)
            /\ UNCHANGED dropped

SubmitTask ==
    /\ submitted < MaxTasks
    /\ submit_task
    /\ UNCHANGED <<backend, callback, worker_running, worker_pc,
                   result_queue, cur_task, cur_result, in_handler,
                   last_analysis_result, taken, failed, enqueued,
                   called_back, polled>>

\* while self.running:
WorkerCheck ==
    /\ worker_pc = "check"
    /\ worker_pc' = IF worker_running THEN "get" ELSE "exited"
    /\ UNCHANGED <<backend, callback, worker_running, task_queue,
                   result_queue, cur_task, cur_result, in_handler,
                   last_analysis_result, submitted, dropped, taken, failed,
                   enqueued, called_back, polled>>

\* task = self.task_queue.get(timeout=1.0); queue.Empty: continue.
WorkerGet ==
    /\ worker_pc = "get"
    /\ IF task_queue = <<>>
       THEN /\ worker_pc' = "check"
            /\ UNCHANGED <<task_queue, cur_task, taken>>
       ELSE /\ worker_pc' = "call"
            /\ cur_task' = GetNowait(task_queue).item
            /\ task_queue' = GetNowait(task_queue).rest
            /\ taken' = Append(taken, GetNowait(task_queue).item)
    /\ UNCHANGED <<backend, callback, worker_running, result_queue,
                   cur_result, in_handler, last_analysis_result, submitted,
                   dropped, failed, enqueued, called_back, polled>>

\* Where the thread goes after the loop's outer "except Exception" has
\* logged an exception: back to the loop's head.
OuterExceptResume_Dies == "exited"
OuterExceptResume == "check"

\* if self.callback: a callback was handed to start().
CallbackRegistered_Never(cb) == FALSE
CallbackRegistered(cb) == cb # "none"

\* self.result_queue.put(r), then on to the callback if one is registered.
PutResult(r, handler) ==
    /\ result_queue' = Append(result_queue, r)
    /\ enqueued' = Append(enqueued, [task |-> cur_task, result |-> r])
    /\ in_handler' = handler
    /\ IF ~CallbackRegistered(callback)
       THEN /\ worker_pc' = "check"
            /\ cur_task' = 0
            /\ cur_result' = NoResult
       ELSE /\ worker_pc' = "callback"
            /\ cur_result' = r
            /\ UNCHANGED cur_task

\* The encoding, the remote call and the parsing end with an answer: the
\* parsed result goes on the result queue.
WorkerCallOk ==
    /\ worker_pc = "call"
    /\ \E text \in Responses : PutResult(ParseResponse(text), FALSE)
    /\ UNCHANGED <<backend, callback, worker_running, task_queue,
                   last_analysis_result, submitted, dropped, taken, failed,
                   called_back, polled>>

\* NetworkWorker: the call raises. A RequestException is logged by the inner
\* handler, anything else by the outer one; no result is put.
NetworkCallFails ==
    /\ worker_pc = "call"
    /\ backend = "network"
    /\ \E kind \in CallFailures :
        /\ failed' = failed \cup {[task |-> cur_task, kind |-> kind]}
        /\ worker_pc' = IF kind = "transport_failure" THEN "check"
                        ELSE OuterExceptResume
    /\ cur_task' = 0
    /\ UNCHANGED <<backend, callback, worker_running, task_queue,
                   result_queue, cur_result, in_handler,
                   last_analysis_result, submitted, dropped, taken,
                   enqueued, called_back, polled>>

\* GeminiWorker: the call raises. "except Exception" puts an error result.
GeminiCallFails ==
    /\ worker_pc = "call"
    /\ backend = "gemini"
    /\ \E kind \in CallFailures :
        /\ failed' = failed \cup {[task |-> cur_task, kind |-> kind]}
        /\ PutResult(ErrorResult(kind), TRUE)
    /\ UNCHANGED <<backend, callback, worker_running, task_queue,
                   last_analysis_result, submitted, dropped, taken,
                   called_back, polled>>

\* SmartMonitor._on_analysis_result(result), the callback the monitor hands
\* to start(): self.last_analysis_result = result, and nothing else of the
\* monitor is written.
on_analysis_result_AlsoAlertState(r) ==
    /\ last_analysis_result' = r
    /\ last_alert_result' = r
    /\ UNCHANGED <<main_pc, now, current_time, has_person, result,
                   last_upload_time, last_alert_time, alert_count,
                   analysis_count, alert_display_start_time, uploads, alerts,
                   notified, evidence>>
on_analysis_result(r) ==
    /\ last_analysis_result' = r
    /\ UNCHANGED main_vars

\* self.callback(result) returns (a callback other than the monitor's keeps
\* no result).
WorkerCallbackReturns ==
    /\ worker_pc = "callback"
    /\ called_back' = Append(called_back, [task |-> cur_task, result |-> cur_result])
    /\ IF callback = "plain"
       THEN on_analysis_result(cur_result)
       ELSE UNCHANGED <<last_analysis_result, main_vars>>
    /\ worker_pc' = "check"
    /\ cur_task' = 0
    /\ cur_result' = NoResult
    /\ in_handler' = FALSE
    /\ UNCHANGED <<backend, callback, worker_running, task_queue,
                   result_queue, submitted, dropped, taken, failed,
                   enqueued, polled>>

\* self.callback(result) raises. In GeminiWorker the first callback runs
\* inside the inner try, so its exception puts an error result and the
\* callback is called again; everywhere else the outer handler logs it.
WorkerCallbackRaises ==
    /\ worker_pc = "callback"
    /\ callback = "raising"
    /\ called_back' = Append(called_back, [task |-> cur_task, result |-> cur_result])
    /\ failed' = failed \cup {[task |-> cur_task, kind |-> "callback_error"]}
    /\ IF backend = "gemini" /\ ~in_handler
       THEN PutResult(ErrorResult("callback_error"), TRUE)
       ELSE /\ worker_pc' = OuterExceptResume
            /\ cur_task' = 0
            /\ cur_result' = NoResult
            /\ in_handler' = FALSE
            /\ UNCHANGED <<result_queue, enqueued>>
    /\ UNCHANGED <<backend, callback, worker_running, task_queue,
                   last_analysis_result, submitted, dropped, taken, polled>>

\* get_result(): get_nowait on the result queue (None when it is empty).
\* The result returned has left the queue.
get_result_LeavesItQueued ==
    /\ result_queue # <<>>
    /\ result_queue' = result_queue
    /\ polled' = Append(polled, GetNowait(result_queue).item)
get_result ==
    /\ result_queue # <<>>
    /\ result_queue' = GetNowait(result_queue).rest
    /\ polled' = Append(polled, GetNowait(result_queue).item)

GetResult ==
    /\ get_result
    /\ UNCHANGED <<backend, callback, worker_running, worker_pc, task_queue,
                   cur_task, cur_result, in_handler, last_analysis_result,
                   submitted, dropped, taken, failed, enqueued, called_back>>

\* get_result() called on a dispatcher that holds a result.
PollResult ==
    /\ GetResult
    /\ last_polled' = "result"
    /\ UNCHANGED wstop_pc

\* get_result() called on a dispatcher that holds none: queue.Empty, and
\* None is returned.
PollNothing ==
    /\ result_queue = <<>>
    /\ GetNowaitReturnsWhenEmpty
    /\ last_polled' = "none"
    /\ UNCHANGED <<worker_vars, wstop_pc>>

\* stop(): self.running = False (the join waits at most 2 seconds).
WorkerStop ==
    /\ worker_running
    /\ worker_running' = FALSE
    /\ UNCHANGED <<backend, callback, worker_pc, task_queue, result_queue,
                   cur_task, cur_result, in_handler, last_analysis_result,
                   submitted, dropped, taken, failed, enqueued, called_back,
                   polled>>

\* self.thread.join(timeout=2.0) returns once the thread has ended or the
\* two seconds have passed, whichever comes first.
JoinReturns_NoTimeout(pc) == pc = "exited"
JoinReturns(pc) == TRUE

\* stop() called on the dispatcher: the flag is cleared, then the join.
DispatcherStop ==
    /\ wstop_pc = "none"
    /\ WorkerStop
    /\ wstop_pc' = "join"
    /\ UNCHANGED last_polled

\* The join returns and stop() with it.
DispatcherStopJoin ==
    /\ wstop_pc = "join"
    /\ JoinReturns(worker_pc)
    /\ wstop_pc' = "done"
    /\ UNCHANGED <<worker_vars, last_polled>>

WorkerThreadSteps ==
    \/ WorkerCheck
    \/ WorkerGet
    \/ WorkerCallOk
    \/ NetworkCallFails
    \/ GeminiCallFails
    \/ WorkerCallbackReturns
    \/ WorkerCallbackRaises


\* ---------------------------------------------- start() and stop() at will
\* NetworkWorker.__init__ / GeminiWorker.__init__: running is False and
\* there is no thread.
InitDispatcherConstructed ==
    /\ backend \in Backends
    /\ callback \in Callbacks
    /\ worker_running = FALSE
    /\ worker_pc = "unstarted"
    /\ task_queue = <<>>
    /\ result_queue = <<>>
    /\ cur_task = 0
    /\ cur_result = NoResult
    /\ in_handler = FALSE
    /\ last_analysis_result = NoResult
    /\ submitted = 0
    /\ dropped = 0
    /\ taken = <<>>
    /\ failed = {}
    /\ enqueued = <<>>
    /\ called_back = <<>>
    /\ polled = <<>>

InitThreads ==
    /\ threads = <<>>
    /\ lifecycle_pc = "idle"

\* The threads that are in their loop.
LiveThreads == {i \in 1..Len(threads) : threads[i] # "exited"}

\* start(callback): self.running = True, and a new thread is made and
\* started, whatever became of an earlier one.
DispatcherStart ==
    /\ lifecycle_pc = "idle"
    /\ Len(threads) < MaxStarts
    /\ worker_running' = TRUE
    /\ threads' = Append(threads, "check")
    /\ UNCHANGED lifecycle_pc
    /\ UNCHANGED <<backend, callback, worker_pc, task_queue, result_queue,
                   cur_task, cur_result, in_handler, last_analysis_result,
                   submitted, dropped, taken, failed, enqueued, called_back,
                   polled>>

\* stop(): self.running = False, then the join of self.thread, the thread
\* of the latest start(), if it is alive.
LifecycleStop ==
    /\ lifecycle_pc = "idle"
    /\ worker_running' = FALSE
    /\ lifecycle_pc' = IF threads # <<>> /\ threads[Len(threads)] # "exited"
                       THEN "join" ELSE "idle"
    /\ UNCHANGED threads
    /\ UNCHANGED <<backend, callback, worker_pc, task_queue, result_queue,
                   cur_task, cur_result, in_handler, last_analysis_result,
                   submitted, dropped, taken, failed, enqueued, called_back,
                   polled>>

\* self.thread.join(timeout=2.0) returns and stop() with it.
LifecycleJoin ==
    /\ lifecycle_pc = "join"
    /\ JoinReturns(threads[Len(threads)])
    /\ lifecycle_pc' = "idle"
    /\ UNCHANGED <<threads, worker_vars>>

\* submit_task called on the dispatcher, started or not.
LifecycleSubmit ==
    /\ SubmitTask
    /\ UNCHANGED thread_vars

\* while self.running: in one of the threads.
ThreadCheck ==
    /\ \E i \in 1..Len(threads) :
          /\ threads[i] = "check"
          /\ threads' = [threads EXCEPT ![i] = IF worker_running THEN "get"
                                               ELSE "exited"]
    /\ UNCHANGED <<lifecycle_pc, worker_vars>>

\* task = self.task_queue.get(timeout=1.0) in one of the threads: it takes
\* the oldest task, or queue.Empty after a second sends it back to the
\* head of the loop.
ThreadGet ==
    /\ \E i \in 1..Len(threads) :
          /\ threads[i] = "get"
          /\ IF task_queue # <<>>
             THEN /\ task_queue' = GetNowait(task_queue).rest
                  /\ taken' = Append(taken, GetNowait(task_queue).item)
                  /\ threads' = [threads EXCEPT ![i] = "call"]
             ELSE /\ threads' = [threads EXCEPT ![i] = "check"]
                  /\ UNCHANGED <<task_queue, taken>>
    /\ UNCHANGED lifecycle_pc
    /\ UNCHANGED <<backend, callback, worker_running, worker_pc,
                   result_queue, cur_task, cur_result, in_handler,
                   last_analysis_result, submitted, dropped, failed,
                   enqueued, called_back, polled>>

\* The remote call of one of the threads returns, with an answer or an
\* error, and the thread is back at the head of its loop.
ThreadCallReturns ==
    /\ \E i \in 1..Len(threads) :
          /\ threads[i] = "call"
          /\ threads' = [threads EXCEPT ![i] = "check"]
    /\ UNCHANGED <<lifecycle_pc, worker_vars>>

\* ------------------------------------------------------------ SmartMonitor
\* time.time() when the session starts: seconds since 1970, far above every
\* cooldown of the program.
WallClockStart == cooldown_seconds + alert_display_duration

\* self.alert_display_start_time = None
NoTime == 0 - 1

\* self.last_upload_time = 0.0 in __init__.
InitLastUploadTime == 0

\* self.last_alert_time = 0.0 in __init__.
InitLastAlertTime_SessionStart == WallClockStart
InitLastAlertTime == 0

\* SmartMonitor after __init__ and initialize(), at the head of the loop.
InitMain ==
    /\ main_pc = "read"
    /\ now = WallClockStart
    /\ current_time = 0
    /\ has_person = FALSE
    /\ result = NoResult
    /\ last_upload_time = InitLastUploadTime
    /\ last_alert_time = InitLastAlertTime
    /\ alert_count = 0
    /\ analysis_count = 0
    /\ alert_display_start_time = NoTime
    /\ last_alert_result = NoResult
    /\ uploads = <<>>
    /\ alerts = <<>>
    /\ notified = <<>>
    /\ evidence = <<>>

\* The clock advances by a second.
Tick ==
    /\ now < WallClockStart + MaxElapsed
    /\ now' = now + 1
    /\ UNCHANGED <<main_pc, current_time, has_person, result,
                   last_upload_time, last_alert_time, alert_count,
                   analysis_count, alert_display_start_time,
                   last_alert_result, uploads, alerts, notified, evidence>>

\* has_person and time_since_last_upload >= self.cooldown_seconds
UploadDue_IgnoresCooldown(person, t, last) == person
UploadDue(person, t, last) == person /\ t - last >= cooldown_seconds

\* Steps 1 to 4 of an iteration: a frame is read from the pipeline, the
\* detector runs, current_time is taken and the frame is submitted to the
\* dispatcher if the upload is due. (Without a frame the loop sleeps and
\* starts over.)
MainGate ==
    /\ main_pc = "read"
    /\ \E person \in BOOLEAN :
        /\ has_person' = person
        /\ current_time' = now
        /\ IF UploadDue(person, now, last_upload_time)
           THEN /\ submit_task
                /\ last_upload_time' = now
                /\ uploads' = Append(uploads, now)
           ELSE UNCHANGED <<submitted, dropped, task_queue,
                            last_upload_time, uploads>>
    /\ main_pc' = "poll"
    /\ UNCHANGED <<now, result, last_alert_time, alert_count,
                   analysis_count, alert_display_start_time,
                   last_alert_result, alerts, notified, evidence>>
    /\ UNCHANGED <<backend, callback, worker_running, worker_pc,
                   result_queue, cur_task, cur_result, in_handler,
                   last_analysis_result, taken, failed, enqueued,
                   called_back, polled>>

\* _save_alert_image(frame, result, is_cooldown) with the alert counter at
\* count: the file name is made of the second, the counter, the cooldown
\* tag and the head of the reasoning; cv2.imwrite writes the file, or fails
\* (the failure is logged and swallowed).
SavedImage(r, count, is_cooldown, ok) ==
    [second |-> now, count |-> count, cooldown |-> is_cooldown,
     reasoning |-> r.reasoning, written |-> ok]

\* except Exception as e: in _save_alert_image: the call returns whether
\* the file was written or not (an exception that left it would end the
\* loop through the except clause of run()).
SaveReturns_OnlyWhenWritten(ok) == ok
SaveReturns(ok) == TRUE

\* The locals of an iteration (has_person, current_time, result) are dead at
\* the head of the next one: the action that ends an iteration resets them.

\* Step 5.5: the alert stays displayed until alert_display_duration has
\* passed since start (None: nothing is displayed); then it is cleared.
DisplayKept_Inclusive(start) ==
    start # NoTime /\ current_time - start <= alert_display_duration
DisplayKept(start) ==
    start # NoTime /\ current_time - start < alert_display_duration

\* Step 5 without a result: get_result() returned None.
MainPollNone ==
    /\ main_pc = "poll"
    /\ result_queue = <<>>
    /\ main_pc' = "display"
    /\ UNCHANGED <<now, current_time, has_person, result, last_upload_time,
                   last_alert_time, alert_count, analysis_count,
                   alert_display_start_time, last_alert_result, uploads,
                   alerts, notified, evidence>>
    /\ UNCHANGED worker_vars

\* Step 5 with a result that reports no danger.
MainPollSafe ==
    /\ main_pc = "poll"
    /\ result_queue # <<>>
    /\ ~GetNowait(result_queue).item.is_danger
    /\ get_result
    /\ analysis_count' = analysis_count + 1
    /\ main_pc' = "display"
    /\ UNCHANGED <<now, current_time, has_person, result, last_upload_time,
                   last_alert_time, alert_count, alert_display_start_time,
                   last_alert_result, uploads, alerts, notified, evidence>>
    /\ UNCHANGED <<backend, callback, worker_running, worker_pc, task_queue,
                   cur_task, cur_result, in_handler, last_analysis_result,
                   submitted, dropped, taken, failed, enqueued, called_back>>

\* self.alert_display_start_time = current_time: a danger result begins the
\* display or refreshes one that is on.
AlertDisplayStart_OnlyWhenOff(start, t) == IF start = NoTime THEN t ELSE start
AlertDisplayStart(start, t) == t

\* Step 5 with a danger result: the display starts, the frame is saved, and
\* the loop goes on to _trigger_alert.
MainPollDanger ==
    /\ main_pc = "poll"
    /\ result_queue # <<>>
    /\ GetNowait(result_queue).item.is_danger
    /\ get_result
    /\ result' = GetNowait(result_queue).item
    /\ analysis_count' = analysis_count + 1
    /\ alert_display_start_time' =
          AlertDisplayStart(alert_display_start_time, current_time)
    /\ last_alert_result' = GetNowait(result_queue).item
    /\ \E ok \in BOOLEAN :
          /\ evidence' = Append(evidence,
                SavedImage(GetNowait(result_queue).item, alert_count, FALSE,
                           ok))
          /\ main_pc' = IF SaveReturns(ok) THEN "trigger" ELSE "stopped"
    /\ UNCHANGED <<now, current_time, has_person, last_upload_time,
                   last_alert_time, alert_count, uploads, alerts, notified>>
    /\ UNCHANGED <<backend, callback, worker_running, worker_pc, task_queue,
                   cur_task, cur_result, in_handler, last_analysis_result,
                   submitted, dropped, taken, failed, enqueued, called_back>>

\* if current_time - self.last_alert_time < self.alert_cooldown_seconds
AlertSuppressed_Inclusive(t, last) == t - last <= alert_cooldown_seconds
AlertSuppressed(t, last) == t - last < alert_cooldown_seconds

\* last_alert_time after a suppressed alert: as it was.
LastAlertTimeWhenSuppressed_Extended(t, last) == t
LastAlertTimeWhenSuppressed(t, last) == last

\* _trigger_alert(result, frame). Within the cooldown only the frame is
\* saved, tagged; otherwise last_alert_time and the counter are updated,
\* the record goes to the notifier and the frame is saved.
MainTriggerAlert ==
    /\ main_pc = "trigger"
    /\ \E ok \in BOOLEAN :
       /\ main_pc' = IF SaveReturns(ok) THEN "display" ELSE "stopped"
       /\ IF AlertSuppressed(now, last_alert_time)
          THEN /\ evidence' = Append(evidence,
                     SavedImage(result, alert_count, TRUE, ok))
               /\ last_alert_time' =
                     LastAlertTimeWhenSuppressed(now, last_alert_time)
               /\ alerts' = Append(alerts, [t |-> now, delivered |-> FALSE])
               /\ UNCHANGED <<alert_count, notified>>
          ELSE /\ last_alert_time' = now
               /\ alert_count' = alert_count + 1
               /\ notified' = Append(notified, now)
               /\ evidence' = Append(evidence,
                     SavedImage(result, alert_count + 1, FALSE, ok))
               /\ alerts' = Append(alerts, [t |-> now, delivered |-> TRUE])
    /\ result' = NoResult
    /\ UNCHANGED <<now, current_time, has_person, last_upload_time,
                   analysis_count, alert_display_start_time,
                   last_alert_result, uploads>>
    /\ UNCHANGED worker_vars

\* Steps 5.5 to 8: an alert display whose duration has passed is cleared,
\* the frame is drawn and shown, and the iteration ends.
MainDisplay ==
    /\ main_pc = "display"
    /\ IF DisplayKept(alert_display_start_time)
       THEN UNCHANGED <<alert_display_start_time, last_alert_result>>
       ELSE /\ alert_display_start_time' = NoTime
            /\ last_alert_result' = NoResult
    /\ main_pc' = "read"
    /\ has_person' = FALSE
    /\ current_time' = 0
    /\ UNCHANGED <<now, result, last_upload_time, last_alert_time,
                   alert_count, analysis_count, uploads, alerts, notified,
                   evidence>>
    /\ UNCHANGED worker_vars

\* The user quits ('q' or ESC): cleanup() stops the pipeline and the worker.
MainQuit ==
    /\ main_pc = "read"
    /\ main_pc' = "stopped"
    /\ worker_running' = FALSE
    /\ UNCHANGED <<now, current_time, has_person, result, last_upload_time,
                   last_alert_time, alert_count, analysis_count,
                   alert_display_start_time, last_alert_result, uploads,
                   alerts, notified, evidence>>
    /\ UNCHANGED <<backend, callback, worker_pc, task_queue, result_queue,
                   cur_task, cur_result, in_handler, last_analysis_result,
                   submitted, dropped, taken, failed, enqueued, called_back,
                   polled>>

\* ---------------------------------------------------------- specifications
\* -------------------------------------------------------- pixel buffers
\* A frame is a numpy array: a buffer of the heap, known by its reference.
\* The pixels of a buffer are the frame of the source they show and the
\* number of layers drawn on it.
Pixels(k, layers) == [frame |-> k, layers |-> layers]

\* frame.copy(): a new buffer with the same pixels.
Copy_SameBuffer(h, ref) == [heap |-> h, ref |-> ref]
Copy(h, ref) == [heap |-> Append(h, h[ref]), ref |-> Len(h) + 1]

\* The draw_* functions (detector.draw_detections, draw_analysis_result,
\* draw_alert_overlay, draw_enhanced_overlay): frame_copy = frame.copy(),
\* the layer is drawn on frame_copy, which is returned.
Draw(h, ref) ==
    LET c == Copy(h, ref)
    IN  [heap |-> [c.heap EXCEPT ![c.ref] =
                       Pixels(c.heap[c.ref].frame, c.heap[c.ref].layers + 1)],
         ref |-> c.ref]

\* There is room for the buffers that a step of a thread allocates.
HeapHasRoom == Len(heap) + 2 <= MaxBuffers

\* No frame has been read yet.
InitFrames ==
    /\ heap = <<>>
    /\ adapter_ref = 0
    /\ adapter_reads = 0
    /\ adapter_pc = "read"
    /\ queue_refs = <<>>
    /\ main_ref = 0
    /\ frame_pc = "read"
    /\ task_refs = <<>>

\* ret, frame = self.cap.read() in the capture thread: OpenCV hands out the
\* next frame in an array of its choice, a new one or the one it handed out
\* before.
FrameAdapterRead ==
    /\ adapter_pc = "read"
    /\ adapter_reads < MaxFrames
    /\ HeapHasRoom
    /\ adapter_reads' = adapter_reads + 1
    /\ \E reuse \in BOOLEAN :
          IF reuse /\ adapter_ref # 0
          THEN /\ heap' = [heap EXCEPT ![adapter_ref] =
                                           Pixels(adapter_reads + 1, 0)]
               /\ UNCHANGED adapter_ref
          ELSE /\ heap' = Append(heap, Pixels(adapter_reads + 1, 0))
               /\ adapter_ref' = Len(heap) + 1
    /\ adapter_pc' = "put"
    /\ UNCHANGED <<queue_refs, main_ref, frame_pc, task_refs>>

\* The enqueue step: the oldest frame is dropped from a full queue, then
\* self.frame_queue.put_nowait(frame.copy()).
FramePut ==
    /\ adapter_pc = "put"
    /\ HeapHasRoom
    /\ LET c == Copy(heap, adapter_ref)
           kept == IF QueueFull(queue_refs, FrameQueueMaxsize)
                   THEN GetNowait(queue_refs).rest ELSE queue_refs
       IN  /\ heap' = c.heap
           /\ queue_refs' = Append(kept, [ref    |-> c.ref,
                                          pixels |-> heap[adapter_ref]])
    /\ adapter_pc' = "read"
    /\ UNCHANGED <<adapter_ref, adapter_reads, main_ref, frame_pc, task_refs>>

\* Step 1 of the main loop: success, frame = self.pipeline.read_frame().
FrameRead ==
    /\ frame_pc = "read"
    /\ queue_refs # <<>>
    /\ main_ref' = GetNowait(queue_refs).item.ref
    /\ queue_refs' = GetNowait(queue_refs).rest
    /\ frame_pc' = "detect"
    /\ UNCHANGED <<heap, adapter_ref, adapter_reads, adapter_pc, task_refs>>

\* Steps 2 and 3: with a person detected the boxes are drawn,
\* frame = self.detector.draw_detections(frame, detections).
FrameDetect ==
    /\ frame_pc = "detect"
    /\ HeapHasRoom
    /\ \E person \in BOOLEAN :
          IF person
          THEN /\ heap' = Draw(heap, main_ref).heap
               /\ main_ref' = Draw(heap, main_ref).ref
               /\ frame_pc' = "submit"
          ELSE /\ UNCHANGED <<heap, main_ref>>
               /\ frame_pc' = "draw"
    /\ UNCHANGED <<adapter_ref, adapter_reads, adapter_pc, queue_refs,
                   task_refs>>

\* Step 4 with a person: when the upload is due, frame_copy = frame.copy()
\* and submit_task(frame_copy, prompt), which puts frame.copy() in the
\* task.
FrameSubmit ==
    /\ frame_pc = "submit"
    /\ HeapHasRoom
    /\ \E due \in BOOLEAN :
          IF due /\ Len(task_refs) < MaxTasks
          THEN LET frame_copy == Copy(heap, main_ref)
                   task == Copy(frame_copy.heap, frame_copy.ref)
               IN  /\ heap' = task.heap
                   /\ task_refs' = Append(task_refs,
                                          [ref    |-> task.ref,
                                           pixels |-> heap[main_ref]])
          ELSE UNCHANGED <<heap, task_refs>>
    /\ frame_pc' = "draw"
    /\ UNCHANGED <<adapter_ref, adapter_reads, adapter_pc, queue_refs,
                   main_ref>>

\* Steps 5 to 8: the result, the alert and the status are drawn on the
\* frame (frame = draw_...(frame, ...)), the frame is shown and the
\* iteration ends.
FrameDraw ==
    /\ frame_pc = "draw"
    /\ HeapHasRoom
    /\ heap' = Draw(heap, main_ref).heap
    /\ main_ref' = Draw(heap, main_ref).ref
    /\ frame_pc' = "read"
    /\ UNCHANGED <<adapter_ref, adapter_reads, adapter_pc, queue_refs,
                   task_refs>>

\* The worker thread has taken the oldest task, sent its frame and is done
\* with it.
FrameTaskDone ==
    /\ task_refs # <<>>
    /\ task_refs' = GetNowait(task_refs).rest
    /\ UNCHANGED <<heap, adapter_ref, adapter_reads, adapter_pc, queue_refs,
                   main_ref, frame_pc>>

\* Before the main loop has read a frame, before any call of stop() or
\* get_result() on the dispatcher, and with no text handed to
\* _parse_response.
InitIdle ==
    /\ ret = "none"
    /\ start_result = [outcome |-> "ok", success |-> TRUE]
    /\ wstop_pc = "none"
    /\ last_polled = "unpolled"
    /\ response_text = <<>>
    /\ parsed = NoResult
    /\ InitFrames
    /\ InitThreads

NextCapture ==
    \/ CaptureLoop /\ UNCHANGED <<worker_vars, main_vars, rest_vars>>
    \/ CaptureReadOk /\ UNCHANGED <<worker_vars, main_vars, rest_vars>>
    \/ CaptureReadFailLoopingFile /\ UNCHANGED <<worker_vars, main_vars, rest_vars>>
    \/ CaptureReadFailFile /\ UNCHANGED <<worker_vars, main_vars, rest_vars>>
    \/ CaptureReadFailCamera /\ UNCHANGED <<worker_vars, main_vars, rest_vars>>
    \/ CaptureCheckFull /\ UNCHANGED <<worker_vars, main_vars, rest_vars>>
    \/ CaptureEvict /\ UNCHANGED <<worker_vars, main_vars, rest_vars>>
    \/ CapturePut /\ UNCHANGED <<worker_vars, main_vars, rest_vars>>
    \/ ReadFrame /\ UNCHANGED <<worker_vars, main_vars, rest_vars>>
    \/ PipelineStop /\ UNCHANGED <<worker_vars, main_vars, rest_vars>>
    \/ PipelineStopRelease /\ UNCHANGED <<worker_vars, main_vars, rest_vars>>

InitCaptureSpec ==
    /\ InitCapture
    /\ InitWorkerWith(Callbacks)
    /\ InitMain
    /\ InitIdle

SpecCapture == InitCaptureSpec /\ [][NextCapture]_vars

NextWorker ==
    \/ SubmitTask /\ UNCHANGED <<capture_vars, main_vars, rest_vars>>
    \/ WorkerCheck /\ UNCHANGED <<capture_vars, main_vars, rest_vars>>
    \/ WorkerGet /\ UNCHANGED <<capture_vars, main_vars, rest_vars>>
    \/ WorkerCallOk /\ UNCHANGED <<capture_vars, main_vars, rest_vars>>
    \/ NetworkCallFails /\ UNCHANGED <<capture_vars, main_vars, rest_vars>>
    \/ GeminiCallFails /\ UNCHANGED <<capture_vars, main_vars, rest_vars>>
    \/ WorkerCallbackReturns /\ UNCHANGED <<capture_vars, rest_vars>>
    \/ WorkerCallbackRaises /\ UNCHANGED <<capture_vars, main_vars, rest_vars>>
    \/ PollResult /\ UNCHANGED <<capture_vars, main_vars, loop_vars, parse_vars, frame_vars, thread_vars>>
    \/ PollNothing /\ UNCHANGED <<capture_vars, main_vars, loop_vars, parse_vars, frame_vars, thread_vars>>
    \/ DispatcherStop /\ UNCHANGED <<capture_vars, main_vars, loop_vars, parse_vars, frame_vars, thread_vars>>
    \/ DispatcherStopJoin /\ UNCHANGED <<capture_vars, main_vars, loop_vars, parse_vars, frame_vars, thread_vars>>

InitWorkerSpec ==
    /\ InitCapture /\ source_kind = "camera"
    /\ InitWorkerWith(Callbacks)
    /\ InitMain
    /\ InitIdle

SpecWorker == InitWorkerSpec /\ [][NextWorker]_vars

\* The worker thread is scheduled: no step of it stays enabled forever
\* without being taken (every call of the model returns or raises).
FairSpecWorker == SpecWorker /\ WF_vars(WorkerThreadSteps /\ UNCHANGED <<capture_vars, main_vars, rest_vars>>)
\* The main loop of SmartMonitor with its dispatcher (the callback is
\* SmartMonitor._on_analysis_result) and the clock.
NextMain ==
    \/ Tick /\ UNCHANGED <<capture_vars, worker_vars, rest_vars>>
    \/ MainGate /\ UNCHANGED <<capture_vars, rest_vars>>
    \/ MainPollNone /\ UNCHANGED <<capture_vars, rest_vars>>
    \/ MainPollSafe /\ UNCHANGED <<capture_vars, rest_vars>>
    \/ MainPollDanger /\ UNCHANGED <<capture_vars, rest_vars>>
    \/ MainTriggerAlert /\ UNCHANGED <<capture_vars, rest_vars>>
    \/ MainDisplay /\ UNCHANGED <<capture_vars, rest_vars>>
    \/ MainQuit /\ UNCHANGED <<capture_vars, rest_vars>>
    \/ WorkerCheck /\ UNCHANGED <<capture_vars, main_vars, rest_vars>>
    \/ WorkerGet /\ UNCHANGED <<capture_vars, main_vars, rest_vars>>
    \/ WorkerCallOk /\ UNCHANGED <<capture_vars, main_vars, rest_vars>>
    \/ NetworkCallFails /\ UNCHANGED <<capture_vars, main_vars, rest_vars>>
    \/ GeminiCallFails /\ UNCHANGED <<capture_vars, main_vars, rest_vars>>
    \/ WorkerCallbackReturns /\ UNCHANGED <<capture_vars, rest_vars>>

InitMainSpec ==
    /\ InitCapture /\ source_kind = "camera"
    /\ InitWorkerWith({"plain"})
    /\ InitMain
    /\ InitIdle

SpecMain == InitMainSpec /\ [][NextMain]_vars

\* The whole client: the capture thread, the main loop reading its frames
\* and the worker thread. The clock stands still (the cooldowns are the
\* matter of SpecMain), so one frame is uploaded, and the session is not
\* ended.

\* Step 1 without a frame: read_frame() returns (False, None) and the loop
\* goes to sleep for 10 ms.
SysReadNoFrame ==
    /\ main_pc = "read"
    /\ frame_queue = <<>>
    /\ GetNowaitReturnsWhenEmpty
    /\ ret' = "empty"
    /\ main_pc' = "sleep"
    /\ UNCHANGED <<now, current_time, has_person, result, last_upload_time,
                   last_alert_time, alert_count, analysis_count,
                   alert_display_start_time, last_alert_result, uploads,
                   alerts, notified, evidence>>
    /\ UNCHANGED <<capture_vars, worker_vars, caller_vars, parse_vars, frame_vars, thread_vars,
                   start_result>>

\* time.sleep(0.01) returns; continue: the loop starts over at step 1.
SysSleepContinue ==
    /\ main_pc = "sleep"
    /\ main_pc' = "read"
    /\ UNCHANGED <<now, current_time, has_person, result, last_upload_time,
                   last_alert_time, alert_count, analysis_count,
                   alert_display_start_time, last_alert_result, uploads,
                   alerts, notified, evidence>>
    /\ UNCHANGED <<capture_vars, worker_vars, rest_vars>>

\* Steps 1 to 4 with a frame from the capture queue.
SysReadGate ==
    /\ ReadFrame
    /\ MainGate
    /\ ret' = "frame"
    /\ UNCHANGED <<caller_vars, parse_vars, frame_vars, thread_vars, start_result>>

\* The steps of an iteration of the main loop.
MainIterationSteps ==
    \/ SysReadNoFrame
    \/ SysSleepContinue
    \/ SysReadGate
    \/ MainPollNone /\ UNCHANGED <<capture_vars, rest_vars>>
    \/ MainPollSafe /\ UNCHANGED <<capture_vars, rest_vars>>
    \/ MainPollDanger /\ UNCHANGED <<capture_vars, rest_vars>>
    \/ MainTriggerAlert /\ UNCHANGED <<capture_vars, rest_vars>>
    \/ MainDisplay /\ UNCHANGED <<capture_vars, rest_vars>>

\* The steps of the capture thread.
CaptureThreadSteps ==
    \/ CaptureLoop /\ UNCHANGED <<worker_vars, main_vars, rest_vars>>
    \/ CaptureReadOk /\ UNCHANGED <<worker_vars, main_vars, rest_vars>>
    \/ CaptureReadFailLoopingFile /\ UNCHANGED <<worker_vars, main_vars, rest_vars>>
    \/ CaptureReadFailFile /\ UNCHANGED <<worker_vars, main_vars, rest_vars>>
    \/ CaptureReadFailCamera /\ UNCHANGED <<worker_vars, main_vars, rest_vars>>
    \/ CaptureCheckFull /\ UNCHANGED <<worker_vars, main_vars, rest_vars>>
    \/ CaptureEvict /\ UNCHANGED <<worker_vars, main_vars, rest_vars>>
    \/ CapturePut /\ UNCHANGED <<worker_vars, main_vars, rest_vars>>

NextSystem ==
    \/ SysReadNoFrame
    \/ SysSleepContinue
    \/ SysReadGate
    \/ MainPollNone /\ UNCHANGED <<capture_vars, rest_vars>>
    \/ MainPollSafe /\ UNCHANGED <<capture_vars, rest_vars>>
    \/ MainPollDanger /\ UNCHANGED <<capture_vars, rest_vars>>
    \/ MainTriggerAlert /\ UNCHANGED <<capture_vars, rest_vars>>
    \/ MainDisplay /\ UNCHANGED <<capture_vars, rest_vars>>
    \/ CaptureLoop /\ UNCHANGED <<worker_vars, main_vars, rest_vars>>
    \/ CaptureReadOk /\ UNCHANGED <<worker_vars, main_vars, rest_vars>>
    \/ CaptureReadFailLoopingFile /\ UNCHANGED <<worker_vars, main_vars, rest_vars>>
    \/ CaptureReadFailFile /\ UNCHANGED <<worker_vars, main_vars, rest_vars>>
    \/ CaptureReadFailCamera /\ UNCHANGED <<worker_vars, main_vars, rest_vars>>
    \/ CaptureCheckFull /\ UNCHANGED <<worker_vars, main_vars, rest_vars>>
    \/ CaptureEvict /\ UNCHANGED <<worker_vars, main_vars, rest_vars>>
    \/ CapturePut /\ UNCHANGED <<worker_vars, main_vars, rest_vars>>
    \/ WorkerCheck /\ UNCHANGED <<capture_vars, main_vars, rest_vars>>
    \/ WorkerGet /\ UNCHANGED <<capture_vars, main_vars, rest_vars>>
    \/ WorkerCallOk /\ UNCHANGED <<capture_vars, main_vars, rest_vars>>
    \/ NetworkCallFails /\ UNCHANGED <<capture_vars, main_vars, rest_vars>>
    \/ GeminiCallFails /\ UNCHANGED <<capture_vars, main_vars, rest_vars>>
    \/ WorkerCallbackReturns /\ UNCHANGED <<capture_vars, rest_vars>>

\* The session starts with the pipeline started, of any source kind and
\* with the default target_fps (0: the playback of a file is not paced).
InitSystemSpec ==
    /\ InitCapture /\ target_fps = 0
    /\ InitWorkerWith({"plain"})
    /\ InitMain
    /\ InitIdle

SpecSystem == InitSystemSpec /\ [][NextSystem]_vars

\* The session to its end: the three threads, and the user who may quit.

\* Step 8 of an iteration that had a frame: the user has pressed 'q' or
\* ESC and the loop breaks; cleanup() begins with pipeline.stop(). (An
\* iteration without a frame ends at its "continue": no key is read.)
SysQuit ==
    /\ main_pc = "read"
    /\ ret = "frame"
    /\ main_pc' = "cleanup_pipeline"
    /\ PipelineStop
    /\ UNCHANGED <<now, current_time, has_person, result, last_upload_time,
                   last_alert_time, alert_count, analysis_count,
                   alert_display_start_time, last_alert_result, uploads,
                   alerts, notified, evidence>>
    /\ UNCHANGED <<worker_vars, rest_vars>>

\* cleanup(): the join of pipeline.stop() returns and the source is
\* released; network_worker.stop() comes next.
SysCleanupRelease ==
    /\ main_pc = "cleanup_pipeline"
    /\ main_pc' = "cleanup_worker"
    /\ PipelineStopRelease
    /\ UNCHANGED <<now, current_time, has_person, result, last_upload_time,
                   last_alert_time, alert_count, analysis_count,
                   alert_display_start_time, last_alert_result, uploads,
                   alerts, notified, evidence>>
    /\ UNCHANGED <<worker_vars, rest_vars>>

\* cleanup(): network_worker.stop() clears the worker's flag, its join
\* returns after 2 seconds at most, and run() returns.
SysCleanupWorker ==
    /\ main_pc = "cleanup_worker"
    /\ main_pc' = "stopped"
    /\ WorkerStop
    /\ JoinReturns(worker_pc)
    /\ UNCHANGED <<now, current_time, has_person, result, last_upload_time,
                   last_alert_time, alert_count, analysis_count,
                   alert_display_start_time, last_alert_result, uploads,
                   alerts, notified, evidence>>
    /\ UNCHANGED <<capture_vars, rest_vars>>

\* The steps the main thread takes by itself, cleanup included (the quit
\* is the user's).
MainThreadSteps ==
    \/ MainIterationSteps
    \/ SysCleanupRelease
    \/ SysCleanupWorker

NextSession ==
    \/ SysReadNoFrame
    \/ SysSleepContinue
    \/ SysReadGate
    \/ MainPollNone /\ UNCHANGED <<capture_vars, rest_vars>>
    \/ MainPollSafe /\ UNCHANGED <<capture_vars, rest_vars>>
    \/ MainPollDanger /\ UNCHANGED <<capture_vars, rest_vars>>
    \/ MainTriggerAlert /\ UNCHANGED <<capture_vars, rest_vars>>
    \/ MainDisplay /\ UNCHANGED <<capture_vars, rest_vars>>
    \/ SysQuit
    \/ SysCleanupRelease
    \/ SysCleanupWorker
    \/ CaptureLoop /\ UNCHANGED <<worker_vars, main_vars, rest_vars>>
    \/ CaptureReadOk /\ UNCHANGED <<worker_vars, main_vars, rest_vars>>
    \/ CaptureReadFailLoopingFile /\ UNCHANGED <<worker_vars, main_vars, rest_vars>>
    \/ CaptureReadFailFile /\ UNCHANGED <<worker_vars, main_vars, rest_vars>>
    \/ CaptureReadFailCamera /\ UNCHANGED <<worker_vars, main_vars, rest_vars>>
    \/ CaptureCheckFull /\ UNCHANGED <<worker_vars, main_vars, rest_vars>>
    \/ CaptureEvict /\ UNCHANGED <<worker_vars, main_vars, rest_vars>>
    \/ CapturePut /\ UNCHANGED <<worker_vars, main_vars, rest_vars>>
    \/ WorkerCheck /\ UNCHANGED <<capture_vars, main_vars, rest_vars>>
    \/ WorkerGet /\ UNCHANGED <<capture_vars, main_vars, rest_vars>>
    \/ WorkerCallOk /\ UNCHANGED <<capture_vars, main_vars, rest_vars>>
    \/ NetworkCallFails /\ UNCHANGED <<capture_vars, main_vars, rest_vars>>
    \/ GeminiCallFails /\ UNCHANGED <<capture_vars, main_vars, rest_vars>>
    \/ WorkerCallbackReturns /\ UNCHANGED <<capture_vars, rest_vars>>

SpecSession == InitSystemSpec /\ [][NextSession]_vars

\* The three threads are scheduled: none of them stays able to take a step
\* forever without taking one. Nothing obliges the user to quit.
FairSpecSession ==
    /\ SpecSession
    /\ WF_vars(MainThreadSteps)
    /\ WF_vars(CaptureThreadSteps)
    /\ WF_vars(WorkerThreadSteps /\
                  UNCHANGED <<capture_vars, main_vars, rest_vars>>)

\* The pipeline from its construction: start(), then the capture thread,
\* the consumer and stop().
NextStart ==
    \/ PipelineStart /\ UNCHANGED <<worker_vars, main_vars, caller_vars, parse_vars, frame_vars, thread_vars>>
    \/ CaptureLoop /\ UNCHANGED <<worker_vars, main_vars, rest_vars>>
    \/ CaptureReadOk /\ UNCHANGED <<worker_vars, main_vars, rest_vars>>
    \/ CaptureReadFailLoopingFile /\ UNCHANGED <<worker_vars, main_vars, rest_vars>>
    \/ CaptureReadFailFile /\ UNCHANGED <<worker_vars, main_vars, rest_vars>>
    \/ CaptureReadFailCamera /\ UNCHANGED <<worker_vars, main_vars, rest_vars>>
    \/ CaptureCheckFull /\ UNCHANGED <<worker_vars, main_vars, rest_vars>>
    \/ CaptureEvict /\ UNCHANGED <<worker_vars, main_vars, rest_vars>>
    \/ CapturePut /\ UNCHANGED <<worker_vars, main_vars, rest_vars>>
    \/ ReadFrame /\ UNCHANGED <<worker_vars, main_vars, rest_vars>>
    \/ PipelineStop /\ UNCHANGED <<worker_vars, main_vars, rest_vars>>
    \/ PipelineStopRelease /\ UNCHANGED <<worker_vars, main_vars, rest_vars>>

InitStartSpec ==
    /\ InitConstructed
    /\ InitWorkerWith({"none"}) /\ backend = "network"
    /\ InitMain
    /\ InitFrames
    /\ InitThreads
    /\ ret = "none"
    /\ start_result = [outcome |-> "none", success |-> FALSE]
    /\ wstop_pc = "none"
    /\ last_polled = "unpolled"
    /\ response_text = <<>>
    /\ parsed = NoResult

SpecStart == InitStartSpec /\ [][NextStart]_vars

\* _parse_response on its own, called once on a response text.

\* The tokens the response texts are made of.
ParseAlphabet ==
    {Tok_Space, Tok_FenceJson, Tok_Fence, Tok_Open, Tok_Close,
     "is_danger:true", "confidence:1.5", "confidence:high", "reasoning:fall",
     "alert_type:fall", "DANGER", "calm"}

\* Longer response texts: a fenced object with every field, the object and
\* the sentence of the documentation's examples, an object after a
\* sentence with a keyword, an object with a repeated key and a negative
\* confidence, an object followed by a remark in braces, and an object
\* whose confidence is the literal NaN.
ParseExamples ==
    { <<Tok_Space, Tok_FenceJson, Tok_Space, Tok_Open, "is_danger:true",
        "alert_type:fall", "alert_message:help", "reasoning:fall",
        "confidence:1.5", Tok_Close, Tok_Space, Tok_Fence, Tok_Space>>,
      <<Tok_Open, "is_danger:true", "confidence:1.5", "reasoning:x",
        Tok_Close>>,
      <<"no json here but ", "DANGER", " detected">>,
      <<"no ", "danger", Tok_Space, Tok_Open, "is_danger:false",
        "reasoning:fall", Tok_Close>>,
      <<Tok_Open, "is_danger:false", "confidence:-0.2", "is_danger:true",
        Tok_Close>>,
      <<Tok_Open, "is_danger:true", "reasoning:fall", Tok_Close, "see ",
        Tok_Open, "calm", Tok_Close>>,
      <<Tok_Open, "is_danger:true", "confidence:NaN", Tok_Close>>,
      <<"weixian">> }

ParseInputs ==
    UNION {[1..n -> ParseAlphabet] : n \in 0..MaxTextLen} \cup ParseExamples

\* parsed_result = self._parse_response(response_text)
Parse ==
    /\ parsed.keys = {}
    /\ parsed' = ParseResponse(response_text)
    /\ UNCHANGED <<capture_vars, worker_vars, main_vars, loop_vars,
                   caller_vars, frame_vars, thread_vars, response_text>>

NextParse == Parse

InitParseSpec ==
    /\ InitCapture /\ source_kind = "camera"
    /\ InitWorkerWith({"none"}) /\ backend = "network"
    /\ InitMain
    /\ InitFrames
    /\ InitThreads
    /\ ret = "none"
    /\ start_result = [outcome |-> "ok", success |-> TRUE]
    /\ wstop_pc = "none"
    /\ last_polled = "unpolled"
    /\ response_text \in ParseInputs
    /\ parsed = NoResult

SpecParse == InitParseSpec /\ [][NextParse]_vars

\* One task from submit_task to the callback, with the backend answering
\* the response text of the initial state (or the call failing).

\* The response texts the backend answers with: the texts of ParseInputs
\* two tokens short of the longest ones, and the examples.
AnswerTexts ==
    {t \in ParseInputs : Len(t) + 2 <= MaxTextLen} \cup ParseExamples
        \cup Responses

\* The main loop submits the one task.
SubmitOne ==
    /\ submitted = 0
    /\ submit_task
    /\ UNCHANGED <<backend, callback, worker_running, worker_pc,
                   result_queue, cur_task, cur_result, in_handler,
                   last_analysis_result, taken, failed, enqueued,
                   called_back, polled>>

\* The encoding and the remote call end with the answer response_text: it
\* is parsed and the result goes on the result queue.
WorkerCallAnswers ==
    /\ worker_pc = "call"
    /\ PutResult(ParseResponse(response_text), FALSE)
    /\ UNCHANGED <<backend, callback, worker_running, task_queue,
                   last_analysis_result, submitted, dropped, taken, failed,
                   called_back, polled>>

NextAnswer ==
    \/ SubmitOne /\ UNCHANGED <<capture_vars, main_vars, rest_vars>>
    \/ WorkerCheck /\ UNCHANGED <<capture_vars, main_vars, rest_vars>>
    \/ WorkerGet /\ UNCHANGED <<capture_vars, main_vars, rest_vars>>
    \/ WorkerCallAnswers /\ UNCHANGED <<capture_vars, main_vars, rest_vars>>
    \/ NetworkCallFails /\ UNCHANGED <<capture_vars, main_vars, rest_vars>>
    \/ GeminiCallFails /\ UNCHANGED <<capture_vars, main_vars, rest_vars>>
    \/ WorkerCallbackReturns /\ UNCHANGED <<capture_vars, rest_vars>>
    \/ WorkerCallbackRaises /\ UNCHANGED <<capture_vars, main_vars, rest_vars>>
    \/ PollResult /\ UNCHANGED <<capture_vars, main_vars, loop_vars, parse_vars, frame_vars, thread_vars>>

InitAnswerSpec ==
    /\ InitCapture /\ source_kind = "camera"
    /\ InitWorkerWith(Callbacks)
    /\ InitMain
    /\ InitFrames
    /\ InitThreads
    /\ ret = "none"
    /\ start_result = [outcome |-> "ok", success |-> TRUE]
    /\ wstop_pc = "none"
    /\ last_polled = "unpolled"
    /\ response_text \in AnswerTexts
    /\ parsed = NoResult

SpecAnswer == InitAnswerSpec /\ [][NextAnswer]_vars

\* The frames on their way: the capture thread reading and publishing, the
\* main loop reading, drawing and submitting, the worker using up tasks.
NextFrames ==
    \/ FrameAdapterRead /\ UNCHANGED <<capture_vars, worker_vars, main_vars,
                                       loop_vars, caller_vars, parse_vars, thread_vars>>
    \/ FramePut /\ UNCHANGED <<capture_vars, worker_vars, main_vars,
                               loop_vars, caller_vars, parse_vars, thread_vars>>
    \/ FrameRead /\ UNCHANGED <<capture_vars, worker_vars, main_vars,
                                loop_vars, caller_vars, parse_vars, thread_vars>>
    \/ FrameDetect /\ UNCHANGED <<capture_vars, worker_vars, main_vars,
                                  loop_vars, caller_vars, parse_vars, thread_vars>>
    \/ FrameSubmit /\ UNCHANGED <<capture_vars, worker_vars, main_vars,
                                  loop_vars, caller_vars, parse_vars, thread_vars>>
    \/ FrameDraw /\ UNCHANGED <<capture_vars, worker_vars, main_vars,
                                loop_vars, caller_vars, parse_vars, thread_vars>>
    \/ FrameTaskDone /\ UNCHANGED <<capture_vars, worker_vars, main_vars,
                                    loop_vars, caller_vars, parse_vars, thread_vars>>

InitFramesSpec ==
    /\ InitCapture /\ source_kind = "camera"
    /\ InitWorkerWith({"plain"}) /\ backend = "network"
    /\ InitMain
    /\ InitIdle

SpecFrames == InitFramesSpec /\ [][NextFrames]_vars

\* A dispatcher whose start(), stop() and submit_task are called at will.
NextLifecycle ==
    \/ DispatcherStart /\ UNCHANGED <<capture_vars, main_vars, loop_vars,
                                      caller_vars, parse_vars, frame_vars>>
    \/ LifecycleStop /\ UNCHANGED <<capture_vars, main_vars, loop_vars,
                                    caller_vars, parse_vars, frame_vars>>
    \/ LifecycleJoin /\ UNCHANGED <<capture_vars, main_vars, loop_vars,
                                    caller_vars, parse_vars, frame_vars>>
    \/ LifecycleSubmit /\ UNCHANGED <<capture_vars, main_vars, loop_vars,
                                      caller_vars, parse_vars, frame_vars>>
    \/ ThreadCheck /\ UNCHANGED <<capture_vars, main_vars, loop_vars,
                                  caller_vars, parse_vars, frame_vars>>
    \/ ThreadGet /\ UNCHANGED <<capture_vars, main_vars, loop_vars,
                                caller_vars, parse_vars, frame_vars>>
    \/ ThreadCallReturns /\ UNCHANGED <<capture_vars, main_vars, loop_vars,
                                        caller_vars, parse_vars, frame_vars>>

InitLifecycleSpec ==
    /\ InitCapture /\ source_kind = "camera"
    /\ InitDispatcherConstructed
    /\ InitMain
    /\ InitIdle

SpecLifecycle == InitLifecycleSpec /\ [][NextLifecycle]_vars

\* ------------------------------------------------------- capture claims
\* C1: in every reachable state, under any interleaving of the capture
\* thread's pushes and the consumer's read_frame calls, the capture queue
\* holds at most 2 frames.
C1_QueueAtMostTwo == Len(frame_queue) <= 2

\* A state where the queue is at its capacity while the capture thread
\* holds one more frame to publish.
C1_Witness ==
    /\ Len(frame_queue) = 2
    /\ cap_pc = "check_full"
    /\ returned # <<>>

\* C2: every frame read_frame returned was one of the 2 most recently
\* published frames at the moment of the read, and successive reads return
\* frames in strictly increasing capture order.
C2_ReadsRecentAndIncreasing ==
    /\ \A i \in 1..Len(returned) : returned[i].frame \in returned[i].recent
    /\ \A i, j \in 1..Len(returned) :
          i < j => returned[i].frame < returned[j].frame

\* Two reads, the second after an eviction raced with the consumer (a frame
\* was published and never returned).
C2_Witness ==
    /\ Len(returned) >= 2
    /\ \E i \in 1..(Len(returned) - 1) :
          returned[i + 1].frame > returned[i].frame + 1

\* C3: after n pushes with no read_frame in between, the queue holds
\* exactly the last min(n, 2) pushed frames, in order: a push into a full
\* queue evicts the oldest frame, never the new one.
C3_DrainYieldsLatest ==
    (returned = <<>> /\ cap_pc \in {"loop", "read", "exited"}) =>
        /\ Len(published) = frame_count
        /\ frame_queue = LastN(published, Min(Len(published), 2))
        /\ published = [i \in 1..frame_count |-> i]

\* Three or more pushes and no read: the first frames were evicted.
C3_Witness ==
    /\ returned = <<>>
    /\ cap_pc = "loop"
    /\ Len(published) >= 3
    /\ frame_queue = <<Len(published) - 1, Len(published)>>

\* -------------------------------------------------------- worker claims
\* The results put on the result queue for task t.
ResultsOf(t) == {i \in 1..Len(enqueued) : enqueued[i].task = t}

\* C4: a transport failure during an analysis call, in either backend,
\* yields exactly one result on the result queue for that task, with
\* is_danger = false, confidence = 0.0 and a non-empty reasoning.
C4_TransportFailureYieldsOneResult ==
    \A f \in failed :
        (f.kind = "transport_failure" /\ cur_task # f.task) =>
            /\ Cardinality(ResultsOf(f.task)) = 1
            /\ \A i \in ResultsOf(f.task) :
                  /\ enqueued[i].result.is_danger = FALSE
                  /\ enqueued[i].result.confidence = 0
                  /\ enqueued[i].result.reasoning # <<>>

\* C5: after a transport failure or any exception raised while a task is
\* handled, the worker thread stays alive (it ends only once the running
\* flag is clear) and goes on to handle the tasks submitted to it: for as
\* long as the running flag is set, it again and again reaches the point
\* where every accepted task has been taken and handled.
C5_WorkerSurvivesFailures ==
    /\ [](worker_pc = "exited" => ~worker_running)
    /\ []<>(~worker_running \/ (task_queue = <<>> /\ cur_task = 0))

\* A task is taken after the handling of an earlier task raised, with the
\* running flag still set.
C5_Witness ==
    /\ worker_running
    /\ \E f \in failed : \E i \in 1..Len(taken) : taken[i] > f.task

\* C6: the task queue has a finite capacity: of the tasks submitted in a
\* burst that outnumbers it, the extra ones are dropped, so the queue never
\* holds every task of the burst.
C6_TaskQueueBounded ==
    \E capacity \in 1..(MaxTasks - 1) : Len(task_queue) <= capacity

\* ----------------------------------------------------- main loop claims
\* C7: a frame is escalated (submit_task is called) if and only if
\* has_person is true and t - last_upload_time >= upload cooldown; hence
\* any two submissions are at least the upload cooldown apart.
C7_UploadGate ==
    /\ [][(main_pc = "read" /\ main_pc' = "poll") =>
            /\ submitted' - submitted =
                  IF has_person' /\ now - last_upload_time >= cooldown_seconds
                  THEN 1 ELSE 0
            /\ uploads' = IF submitted' = submitted THEN uploads
                          ELSE Append(uploads, now)]_vars
    /\ [](\A i, j \in 1..Len(uploads) :
            i < j => uploads[j] - uploads[i] >= cooldown_seconds)

\* A frame with a person 3 seconds after the only upload: it is not
\* submitted.
C7_Witness ==
    /\ main_pc = "poll"
    /\ has_person
    /\ Len(uploads) = 1
    /\ submitted = 1
    /\ current_time = uploads[1] + 3

\* C8: a danger result handled at time t is handed to the notifier, sets
\* last_alert_time = t and increments the alert counter if and only if
\* t - last_alert_time >= alert cooldown; hence any two delivered records
\* are at least the alert cooldown apart.
C8_AlertCooldown ==
    /\ [][(main_pc = "trigger" /\ main_pc' # "trigger") =>
            IF now - last_alert_time >= alert_cooldown_seconds
            THEN /\ notified' = Append(notified, now)
                 /\ last_alert_time' = now
                 /\ alert_count' = alert_count + 1
            ELSE /\ notified' = notified
                 /\ alert_count' = alert_count]_vars
    /\ [](\A i, j \in 1..Len(notified) :
            i < j => notified[j] - notified[i] >= alert_cooldown_seconds)

\* Two danger results 3 seconds apart, both delivered.
C8_Witness ==
    /\ Len(alerts) = 2
    /\ alerts[1].delivered
    /\ alerts[2].delivered
    /\ alerts[2].t = alerts[1].t + 3
    /\ notified = <<alerts[1].t, alerts[2].t>>

\* C9: the first danger result of a session, handled while last_alert_time
\* still has its initial value, is delivered to the notifier: the cooldown
\* does not suppress it.
C9_FirstAlertDelivered ==
    alerts # <<>> =>
        /\ alerts[1].delivered
        /\ notified # <<>>
        /\ notified[1] = alerts[1].t

\* The first danger result is handled in the very second the session
\* started.
C9_Witness ==
    /\ Len(alerts) = 1
    /\ alerts[1].t = WallClockStart
    /\ notified = <<WallClockStart>>

\* C10: a danger result handled while t - last_alert_time < alert cooldown
\* is not handed to the notifier and leaves last_alert_time and the alert
\* counter unchanged, while _save_alert_image is still called for it with
\* the cooldown tag (the image is written unless the write itself fails).
C10_SuppressedAlertKeepsState ==
    [][(/\ main_pc = "trigger"
        /\ main_pc' # "trigger"
        /\ now - last_alert_time < alert_cooldown_seconds) =>
          /\ notified' = notified
          /\ last_alert_time' = last_alert_time
          /\ alert_count' = alert_count
          /\ Len(evidence') = Len(evidence) + 1
          /\ evidence'[Len(evidence')].cooldown
          /\ evidence'[Len(evidence')].second = now
          /\ evidence'[Len(evidence')].count = alert_count]_vars

\* A danger result was suppressed one second after a delivered one, and its
\* tagged image was written.
C10_Witness ==
    /\ Len(alerts) = 2
    /\ alerts[1].delivered
    /\ ~alerts[2].delivered
    /\ alerts[2].t = alerts[1].t + 1
    /\ last_alert_time = alerts[1].t
    /\ alert_count = 1
    /\ evidence[Len(evidence)].cooldown
    /\ evidence[Len(evidence)].written

\* The evidence files on disk: the names of the images that were written.
EvidenceFiles ==
    {[second |-> evidence[i].second, count |-> evidence[i].count,
      cooldown |-> evidence[i].cooldown, reasoning |-> evidence[i].reasoning] :
        i \in {j \in 1..Len(evidence) : evidence[j].written}}

\* C11: every danger result polled by the main loop, delivered or
\* suppressed, causes exactly one evidence image file to be persisted: when
\* no write failed, there are as many files as danger results handled.
C11_OneEvidencePerDangerResult ==
    (main_pc # "trigger" /\ \A i \in 1..Len(evidence) : evidence[i].written) =>
        Cardinality(EvidenceFiles) = Len(alerts)

\* C12: the main loop never blocks on another thread. In every reachable
\* state, also while the worker thread is in a remote call that does not
\* return, a step of the main loop's iteration can be taken (read_frame on
\* an empty queue, submit_task and get_result all return at once) and a
\* step of the capture thread can be taken, until they end.
C12_MainLoopNeverBlocks ==
    /\ main_pc \in {"read", "sleep", "poll", "trigger", "display"} =>
          ENABLED MainIterationSteps
    /\ cap_pc # "exited" => ENABLED CaptureThreadSteps

\* The worker is in the remote call of the uploaded frame; the main loop
\* is in a later iteration, on a frame that was not uploaded, after a
\* read_frame on an empty queue or not, and the capture thread holds a new
\* frame to publish.
C12_Witness ==
    /\ worker_pc = "call"
    /\ uploads # <<>>
    /\ main_pc = "poll"
    /\ ~has_person
    /\ Len(returned) >= 2
    /\ cap_pc = "put"

\* C13: stop() of the dispatcher always returns: once the flag is cleared
\* the join can return in every state, also while the worker is in a remote
\* call that never returns; the flag stays cleared, and a worker that is
\* idle then leaves its queue wait for the loop's head and the loop's head
\* for the end of the loop (at most one queue wait after the flag cleared).
C13_StopAlwaysReturns ==
    /\ [](wstop_pc = "join" =>
            /\ ~worker_running
            /\ ENABLED (DispatcherStopJoin /\
                          UNCHANGED <<capture_vars, main_vars, loop_vars,
                                      parse_vars, frame_vars, thread_vars>>))
    /\ [][~worker_running => ~worker_running']_vars
    /\ [][(~worker_running /\ worker_pc = "get" /\ task_queue = <<>>
            /\ worker_pc' # "get") => worker_pc' = "check"]_vars
    /\ [][(~worker_running /\ worker_pc = "check" /\ worker_pc' # "check")
            => worker_pc' = "exited"]_vars

\* stop() has returned while the worker is still in a remote call.
C13_Witness ==
    /\ wstop_pc = "done"
    /\ worker_pc = "call"
    /\ ~worker_running

\* C14: after VideoPipeline.stop() has returned, the source is released
\* and stays released: the capture thread performs no further read or
\* connect on it, also when it had not ended within the join timeout.
C14_SourceStaysReleased ==
    /\ [](stop_pc = "done" => ~is_opened)
    /\ [][stop_pc = "done" =>
            (is_opened' = is_opened /\ frame_count' = frame_count)]_vars

\* C15: for every result the worker places on the result queue, the
\* registered callback is invoked exactly once with that same result, after
\* the result has been enqueued: the callback's invocations are the results
\* enqueued, in order, but for the one the worker is about to deliver.
\* Without a callback nothing is invoked, and a call that ends with an
\* answer still puts its result on the queue, whatever the callback.
C15_CallbackOncePerResult ==
    /\ [](IF callback = "none"
           THEN called_back = <<>>
           ELSE /\ Len(called_back) <= Len(enqueued)
                /\ called_back = SubSeq(enqueued, 1, Len(called_back))
                /\ Len(called_back) =
                      IF worker_pc = "callback" THEN Len(enqueued) - 1
                      ELSE Len(enqueued))
    /\ [][(worker_pc = "call" /\ worker_pc' # "call" /\ failed' = failed) =>
            /\ Len(enqueued') = Len(enqueued) + 1
            /\ result_queue' =
                  Append(result_queue, enqueued'[Len(enqueued')].result)]_vars

\* GeminiWorker with a callback that raised: the task has two results, and
\* the callback was invoked once with each.
C15_Witness ==
    /\ backend = "gemini"
    /\ callback = "raising"
    /\ Len(enqueued) = 2
    /\ enqueued[1].task = enqueued[2].task
    /\ called_back = enqueued
    /\ worker_pc = "check"

\* The results the worker enqueued, in order.
EnqueuedResults == [i \in 1..Len(enqueued) |-> enqueued[i].result]

C17_TasksFifo ==
    /\ \A i, j \in 1..Len(taken) : i < j => taken[i] < taken[j]
    /\ cur_task # 0 => (taken # <<>> /\ cur_task = taken[Len(taken)])
    /\ \A i, j \in 1..Len(enqueued) :
          i < j => enqueued[i].task <= enqueued[j].task
    /\ \A i \in 1..Len(enqueued) : enqueued[i].task \in SeqToSet(taken)
    /\ worker_pc = "call" =>
          \A i \in 1..Len(enqueued) : enqueued[i].task < cur_task

\* Two tasks were submitted before the worker took the first; the results
\* of both are enqueued, the first task's first.
C17_Witness ==
    /\ submitted = 2
    /\ taken = <<1, 2>>
    /\ Len(enqueued) = 2
    /\ enqueued[1].task = 1
    /\ enqueued[2].task = 2
    /\ polled = <<>>

\* ------------------------------------------------------- parsing claims
\* The positions of the braces of a text.
Braces(text) == {i \in 1..Len(text) : text[i] \in {Tok_Open, Tok_Close}}

\* text[i..j] is a well-formed JSON object whose fields have the types of
\* an AnalysisResult: "{", members with a boolean, strings and a number
\* (and whitespace), "}".
IsObjectAt(text, i, j) ==
    /\ i < j
    /\ text[i] = Tok_Open
    /\ text[j] = Tok_Close
    /\ \A k \in (i + 1)..(j - 1) :
          /\ text[k] \in MemberTokens \cup {Tok_Space}
          /\ text[k] \notin {"confidence:high", "confidence:NaN"}

\* The value the object text[i..j] gives for a key: that of the last member
\* with the key, or the default of the field.
Given(text, i, j, key, default) ==
    LET idx == {k \in i..j : MemberKey(text[k]) = key}
        last == CHOOSE k \in idx : \A m \in idx : m <= k
    IN  IF idx = {} THEN default
        ELSE CASE key = "is_danger" -> text[last] = "is_danger:true"
               [] key = "confidence" -> ConfidenceValue(text[last])
               [] OTHER -> TextValue(text[last])

\* The result has the fields of the object text[i..j], the confidence
\* brought into [0, 1].
ResultGivenBy(r, text, i, j) ==
    /\ r.is_danger = Given(text, i, j, "is_danger", FALSE)
    /\ r.reasoning = Given(text, i, j, "reasoning", <<>>)
    /\ r.alert_type = Given(text, i, j, "alert_type", <<>>)
    /\ r.alert_message = Given(text, i, j, "alert_message", <<>>)
    /\ LET c == Given(text, i, j, "confidence", 50)
       IN  r.confidence = IF c > 100 THEN 100 ELSE IF c < 0 THEN 0 ELSE c

\* C18 as stated: for any response text that contains a well-formed JSON
\* object, the result has is_danger, reasoning, alert_type and
\* alert_message as given in the object (defaults false and empty) and the
\* confidence as given, clamped into [0, 1] (default 0.5).
C18_ContainedObjectIsExtracted ==
    (parsed.keys # {} /\
     \E i, j \in 1..Len(response_text) : IsObjectAt(response_text, i, j)) =>
        \E i, j \in 1..Len(response_text) :
            /\ IsObjectAt(response_text, i, j)
            /\ ResultGivenBy(parsed, response_text, i, j)

\* C18 amended: for any response text whose first "{" and last "}" enclose
\* a well-formed JSON object with fields of the documented types (nothing
\* else in the text has a brace; a code fence, whitespace and prose may
\* surround the object), the result has is_danger, reasoning, alert_type
\* and alert_message as given in the object (defaults false and empty) and
\* the confidence as given, clamped into [0, 1] (default 0.5); the object
\* with is_danger true, confidence 1.5 and reasoning "x" yields is_danger
\* true and confidence 1.0.
C18_EnclosedObjectIsExtracted ==
    parsed.keys # {} =>
        /\ \A i, j \in 1..Len(response_text) :
              (IsObjectAt(response_text, i, j) /\ Braces(response_text) = {i, j})
                  => ResultGivenBy(parsed, response_text, i, j)
        /\ response_text = <<Tok_Open, "is_danger:true", "confidence:1.5",
                             "reasoning:x", Tok_Close>>
              => (parsed.is_danger /\ parsed.confidence = 100
                  /\ parsed.reasoning = <<"x">>)

\* A fenced object, with whitespace around the fence, every field and a
\* confidence above 1, has been parsed.
C18_Witness ==
    /\ parsed.keys # {}
    /\ Len(response_text) > 2
    /\ response_text[2] = Tok_FenceJson
    /\ parsed.is_danger
    /\ parsed.confidence = 100
    /\ parsed.reasoning = <<"fall">>
    /\ parsed.alert_type = <<"fall">>
    /\ parsed.alert_message = <<"help">>

\* The tokens that hold a danger-indicating keyword: "danger" in either
\* case, alone or inside a longer word, and its Chinese counterparts.
DangerWords ==
    {"danger", "DANGER", "is_danger:true", "is_danger:false", "weixian",
     "yichang", "shoushang"}

\* C19: for any response text without JSON delimiters, the result's
\* reasoning is the original text unchanged and is_danger is true exactly
\* when the text contains a danger-indicating keyword (in either case for
\* "danger"); the sentence "no json here but DANGER detected" yields
\* is_danger true and itself as the reasoning.
C19_KeywordFallback ==
    parsed.keys # {} =>
        /\ Braces(response_text) = {} =>
              /\ parsed.reasoning = response_text
              /\ parsed.is_danger =
                    (\E i \in 1..Len(response_text) :
                        response_text[i] \in DangerWords)
        /\ response_text = <<"no json here but ", "DANGER", " detected">> =>
              (parsed.is_danger /\ parsed.reasoning = response_text)

\* The sentence of the example has been parsed.
C19_Witness ==
    /\ response_text = <<"no json here but ", "DANGER", " detected">>
    /\ parsed.keys # {}
    /\ parsed.is_danger
    /\ parsed.reasoning = response_text
    /\ parsed.confidence = 50

\* C20: whenever an error occurs during parsing or field extraction, the
\* result is the safe default (is_danger false, confidence 0.5, no alert
\* type and message) with a non-empty reasoning: no field extracted before
\* the error survives.
C20_ErrorYieldsSafeDefault ==
    (parsed.keys # {} /\ ParseError(response_text) # "none") =>
        /\ parsed.is_danger = FALSE
        /\ parsed.confidence = 50
        /\ parsed.alert_type = <<>>
        /\ parsed.alert_message = <<>>
        /\ parsed.reasoning # <<>>

\* ------------------------------------------------------- result claims
\* The results that reached the result queue or the callback.
DeliveredResults ==
    {enqueued[i].result : i \in 1..Len(enqueued)}
        \cup {called_back[i].result : i \in 1..Len(called_back)}
        \cup SeqToSet(result_queue) \cup SeqToSet(polled)

\* C21: every result that reaches the result queue or the callback, from
\* either backend and on every path (parsed JSON, keyword fallback, parse
\* error, transport failure), has its confidence within [0, 1].
C21_ConfidenceInUnitInterval ==
    \A r \in DeliveredResults :
        r.confidence # NaN /\ 0 <= r.confidence /\ r.confidence <= 100

\* GeminiWorker parsed an answer whose confidence is the literal NaN and
\* delivered the result with confidence 1; the callback raised, and the
\* result of the failure was delivered with confidence 0.
C21_Witness ==
    /\ response_text = <<Tok_Open, "is_danger:true", "confidence:NaN", Tok_Close>>
    /\ Len(called_back) = 2
    /\ called_back[1].result.confidence = 100
    /\ called_back[2].result.confidence = 0
    /\ called_back[2].result.raw_response[1] = "API call failed"

\* C22: every result that reaches the result queue or the callback, from
\* either backend and on every path including transport failure, has all
\* six fields raw_response, is_danger, reasoning, confidence, alert_type
\* and alert_message defined.
C22_AllSixFieldsDefined ==
    \A r \in DeliveredResults : r.keys = AllKeys

\* -------------------------------------------------------- start claims
\* C23: VideoPipeline.start() returns failure, leaves running false and
\* spawns no capture thread if the adapter cannot open the source or cannot
\* read a first frame; it sets running and spawns the capture thread only
\* when the connect succeeded (and then returns success).
C23_StartOnlyOnConnect ==
    /\ [][start_result' # start_result =>
            IF start_result'.outcome = "ok"
            THEN /\ start_result'.success
                 /\ pipeline_running'
                 /\ cap_pc' = "loop"
                 /\ is_opened'
            ELSE /\ ~start_result'.success
                 /\ ~pipeline_running'
                 /\ cap_pc' = "unstarted"
                 /\ ~is_opened']_vars
    /\ [](start_result.outcome # "ok" =>
            (~pipeline_running /\ cap_pc = "unstarted"))

\* start() has returned failure because the first frame could not be read.
C23_Witness ==
    /\ start_result.outcome = "no_first_frame"
    /\ ~start_result.success
    /\ ~pipeline_running
    /\ cap_pc = "unstarted"
    /\ stop_pc = "none"

\* ----------------------------------------------------- threading claims
\* The cooldown/alert state of SmartMonitor.
AlertState ==
    <<last_upload_time, last_alert_time, alert_display_start_time,
      last_alert_result>>

\* C24: the cooldown/alert state (last_upload_time, last_alert_time,
\* alert_display_start_time, last_alert_result) is written only by the
\* main-loop thread: no step of the capture thread, no step of the worker
\* thread and no run of the result callback on the worker thread changes
\* any of these fields; they change only in steps of the main loop.
C24_AlertStateSingleWriter ==
    /\ [][CaptureThreadSteps => UNCHANGED AlertState]_vars
    /\ [][(WorkerThreadSteps /\ UNCHANGED <<capture_vars, rest_vars>>)
            => UNCHANGED AlertState]_vars
    /\ [][(worker_pc = "callback" /\ worker_pc' # "callback")
            => UNCHANGED AlertState]_vars
    /\ [][main_pc' = main_pc => UNCHANGED AlertState]_vars

\* The callback has run on the worker thread with a danger result that the
\* main loop has not polled yet: the monitor holds it as its last analysis
\* result, and the alert state is as the main loop left it after the
\* upload.
C24_Witness ==
    /\ called_back # <<>>
    /\ last_analysis_result.keys # {}
    /\ last_analysis_result.is_danger
    /\ polled = <<>>
    /\ last_alert_result = NoResult
    /\ alert_display_start_time = NoTime
    /\ last_upload_time = now
    /\ cap_pc = "put"

\* C25: when the capture loop has terminated because of an unrecoverable
\* source failure (a non-looping file has ended, or a reconnect has failed:
\* the thread has ended while the pipeline's running flag is still set),
\* the monitoring session eventually ends: the main loop exits and cleanup
\* runs.
C25_SessionEndsWhenCaptureEnds ==
    (cap_pc = "exited" /\ pipeline_running) ~> (main_pc = "stopped")

\* ------------------------------------------------------ pending tasks
\* The analysis tasks pending: those queued and the one in flight.
PendingTasks == Len(task_queue) + (IF cur_task # 0 THEN 1 ELSE 0)

\* C26: because last_upload_time is set at the moment of submission,
\* overlapping requests are never queued during a remote call's latency: at
\* no time are two or more analysis tasks pending (queued or in flight) at
\* once, for any latency of the remote call up to the backend's timeout.
C26_AtMostOnePending == PendingTasks <= 1

\* The callback invocations made for task t.
CallbacksOf(t) == {i \in 1..Len(called_back) : called_back[i].task = t}

\* C27: every task accepted by submit_task is taken from the task queue
\* exactly once (never twice; and it has been taken once it is neither
\* queued nor dropped) and contributes at most one result to the result
\* queue and at most one callback invocation, also when the registered
\* callback raises after the result has been enqueued.
C27_OneResultPerTask ==
    /\ \A i, j \in 1..Len(taken) : taken[i] = taken[j] => i = j
    /\ \A t \in 1..submitted :
          /\ (t \in SeqToSet(taken)) # (t \in SeqToSet(task_queue))
          /\ Cardinality(ResultsOf(t)) <= 1
          /\ Cardinality(CallbacksOf(t)) <= 1

\* C28: when the response text contains "{" and "}" but the delimited
\* substring does not parse as structured data (also when the only "}"
\* precedes the first "{"), normalization falls back to keyword scanning
\* of the raw text to set is_danger, exactly as when the delimiters are
\* absent, and sets reasoning to the raw text.
C28_KeywordScanOnParseFailure ==
    (/\ parsed.keys # {}
     /\ \E i \in Braces(response_text) : response_text[i] = Tok_Open
     /\ \E i \in Braces(response_text) : response_text[i] = Tok_Close
     /\ ParseError(response_text) = "JSONDecodeError") =>
        /\ parsed.reasoning = response_text
        /\ parsed.is_danger =
              (\E i \in 1..Len(response_text) : response_text[i] \in DangerWords)

\* ---------------------------------------------------- polled results
\* C29: for each result polled by the main loop the analysis counter
\* increases by exactly 1 (and it changes at no other step); if the result
\* is a danger result, alert_display_start_time is set to the iteration
\* time t and last_alert_result to that result, and they stay so through
\* _trigger_alert, also when the alert is suppressed by the cooldown; if it
\* is not a danger result, alert_display_start_time, last_alert_result,
\* last_alert_time and the alert counter are left unchanged.
C29_PolledResultEffect ==
    /\ [][analysis_count' =
            IF polled' # polled THEN analysis_count + 1 ELSE analysis_count]_vars
    /\ [][polled' # polled =>
            IF polled'[Len(polled')].is_danger
            THEN /\ alert_display_start_time' = current_time
                 /\ last_alert_result' = polled'[Len(polled')]
            ELSE UNCHANGED <<alert_display_start_time, last_alert_result,
                             last_alert_time, alert_count>>]_vars
    /\ [][main_pc = "trigger" =>
            UNCHANGED <<alert_display_start_time, last_alert_result>>]_vars

\* A second danger result was polled in the iteration of the second
\* upload, while the display of the first was still on, and its alert was
\* suppressed by the cooldown: the display state is that of the second
\* result.
C29_Witness ==
    /\ main_pc = "display"
    /\ Len(polled) = 2
    /\ polled[1].is_danger
    /\ polled[2].is_danger
    /\ Len(alerts) = 2
    /\ ~alerts[2].delivered
    /\ analysis_count = 2
    /\ alert_display_start_time = current_time
    /\ current_time = uploads[2]
    /\ last_alert_result = polled[2]

\* C30: every iteration of the main loop polls the dispatcher exactly
\* once, including the iterations in which read_frame reports no frame:
\* whatever read_frame returned, the iteration goes on from step 1 to the
\* poll of step 5 (so that results are consumed also when the pipeline
\* delivers no further frames).
C30_EveryIterationPolls ==
    [][(main_pc = "read" /\ main_pc' # "read") => main_pc' = "poll"]_vars

\* ------------------------------------------------------ display window
\* C31: at the end of an iteration with time t, while
\* t - alert_display_start_time < alert_display_duration the display state
\* (start time and last dangerous result) is kept, although the iteration
\* polled no result or one that is no danger; at the first iteration with
\* t - alert_display_start_time >= alert_display_duration both are cleared;
\* a danger result polled inside the window restarts it from the time of
\* its own iteration. No other step writes the display state.
C31_DisplayWindow ==
    /\ [][(main_pc = "display" /\ main_pc' # "display") =>
            IF /\ alert_display_start_time # NoTime
               /\ current_time - alert_display_start_time
                     < alert_display_duration
            THEN /\ UNCHANGED <<alert_display_start_time, last_alert_result>>
                 /\ last_alert_result # NoResult
                 /\ last_alert_result.is_danger
            ELSE /\ alert_display_start_time' = NoTime
                 /\ last_alert_result' = NoResult]_vars
    /\ [][(main_pc = "poll" /\ main_pc' = "trigger") =>
            /\ alert_display_start_time' = current_time
            /\ last_alert_result' = polled'[Len(polled')]]_vars
    /\ [][~(main_pc = "display" /\ main_pc' # "display")
          /\ ~(main_pc = "poll" /\ main_pc' = "trigger") =>
            UNCHANGED <<alert_display_start_time, last_alert_result>>]_vars

\* The display that began with the danger result of the first upload has
\* lasted through the iterations since, the last of which polled a result
\* that is no danger; in this iteration its duration has passed, and the
\* step at hand clears it.
C31_Witness ==
    /\ main_pc = "display"
    /\ Len(polled) = 2
    /\ polled[1].is_danger
    /\ ~polled[2].is_danger
    /\ last_alert_result = polled[1]
    /\ alert_display_start_time = uploads[1]
    /\ current_time - alert_display_start_time = alert_display_duration

\* --------------------------------------------------------- failed reads
\* A step of the capture thread that handles a failed read.
FailedReadStep == cap_pc = "read" /\ cap_pc' \in {"loop", "exited"}

\* C32: on a failed read in the capture loop, a looping file source is
\* released and a reconnect is tried: when it succeeds the pacing state is
\* reset and capture continues from a source that is open, when it fails
\* the loop ends with the source released; a file source that does not loop
\* ends the loop; a camera source gets one reconnect, and the loop continues
\* (with the source open) if it succeeds and ends otherwise. A failed read
\* never publishes a frame.
C32_FailedReadHandling ==
    [][FailedReadStep =>
        /\ UNCHANGED <<frame_queue, published, frame_count>>
        /\ source_kind = "file_loop" =>
              IF cap_pc' = "loop"
              THEN /\ is_opened' /\ cap_open'
                   /\ last_frame_time' = 0
                   /\ pass_reads' = 0
              ELSE /\ ~is_opened'
                   /\ UNCHANGED last_frame_time
        /\ source_kind = "file_once" =>
              /\ cap_pc' = "exited"
              /\ UNCHANGED <<is_opened, cap_open, last_frame_time>>
        /\ source_kind = "camera" =>
              /\ cap_pc' = "loop" => is_opened' /\ cap_open'
              /\ cap_open # cap_open' => (cap_pc' = "loop") = cap_open'
       ]_vars

\* C32 as stated: after a failed read on a looping file source the pacing
\* state is reset and capture continues.
C32_LoopingFileAlwaysContinues ==
    [][(FailedReadStep /\ source_kind = "file_loop") =>
          /\ cap_pc' = "loop"
          /\ last_frame_time' = 0]_vars

\* A paced looping file was played to a failed read and opened again: the
\* capture loop goes on, no frame of the new pass read yet, with the pacing
\* reset.
C32_Witness ==
    /\ source_kind = "file_loop"
    /\ Paced
    /\ cap_pc = "loop"
    /\ pipeline_running
    /\ is_opened
    /\ frame_count > 0
    /\ pass_reads = 0
    /\ last_frame_time = 0
    /\ Len(published) = frame_count

\* ------------------------------------------------------ playback passes
\* C33: when a looping file source has reached its end and was opened
\* again, the first frame published after the restart (the first of the new
\* playback pass, frames of an earlier pass having been read) is the first
\* frame of the file, and the k-th is the k-th: every frame of the file is
\* published once per pass.
C33_RestartPublishesFirstFrame ==
    [][(/\ source_kind = "file_loop"
        /\ published' # published
        /\ frame_count > pass_reads) => file_pos = pass_reads]_vars

\* --------------------------------------------------------- enqueue step
\* C34: for every frame read successfully the enqueue step of the capture
\* loop completes without waiting, whatever the consumer does in between,
\* and publishes the frame: each of its steps can be taken in every state,
\* the queue is never full when put_nowait is reached, and the step that
\* ends it appends the frame to the queue (the skip branch is not taken).
C34_EnqueueAlwaysPublishes ==
    /\ [](cap_pc = "check_full" => ENABLED CaptureCheckFull)
    /\ [](cap_pc = "evict" => ENABLED CaptureEvict)
    /\ [](cap_pc = "put" => /\ ENABLED CapturePut
                            /\ cap_frame # 0
                            /\ ~QueueFull(frame_queue, FrameQueueMaxsize))
    /\ [][(cap_pc = "put" /\ cap_pc' # "put") =>
            /\ published' = Append(published, cap_frame)
            /\ frame_queue' = Append(frame_queue, cap_frame)]_vars

\* The capture thread found the queue full with frames 1 and 2; the
\* consumer then read frame 1 and the eviction took frame 2: the queue is
\* empty when frame 3 is about to be put.
C34_Witness ==
    /\ cap_pc = "put"
    /\ cap_frame = 3
    /\ published = <<1, 2>>
    /\ Len(returned) = 1
    /\ returned[1].frame = 1
    /\ frame_queue = <<>>

\* -------------------------------------------------------- frame hand-off
\* C35: every frame handed across a thread boundary is an independent
\* copy. A frame held in the Capture Queue has a buffer of its own, not the
\* adapter's, and holds the pixels it was put with whatever the adapter
\* reads next; the frame of an AnalysisTask has a buffer of its own, not
\* the one of the main loop's frame, and holds the pixels it was submitted
\* with whatever the main loop draws or reads afterwards.
C35_HandedFramesAreCopies ==
    /\ \A i \in 1..Len(queue_refs) :
          /\ queue_refs[i].ref # adapter_ref
          /\ heap[queue_refs[i].ref] = queue_refs[i].pixels
    /\ \A i \in 1..Len(task_refs) :
          /\ task_refs[i].ref # main_ref
          /\ task_refs[i].ref # adapter_ref
          /\ heap[task_refs[i].ref] = task_refs[i].pixels

\* The queue holds frame 1 while the adapter has read frame 2 into the
\* array it read frame 1 into, and a task holds the frame of an earlier
\* iteration, with its boxes, while the main loop has drawn on its own and
\* read the next.
C35_Witness ==
    /\ Len(queue_refs) >= 1
    /\ adapter_ref # 0
    /\ heap[adapter_ref].frame > queue_refs[1].pixels.frame
    /\ adapter_ref < queue_refs[1].ref
    /\ Len(task_refs) = 1
    /\ main_ref # 0
    /\ heap[main_ref].frame > task_refs[1].pixels.frame
    /\ task_refs[1].pixels.layers = 1

\* ------------------------------------------------------ failed writes
\* C36: a failure to write an evidence image is non-fatal. Whether the
\* write of a step succeeds or fails, the main loop goes on to the same
\* next step (and from there to the next iteration), and last_alert_time,
\* the alert counter and the records delivered to the notifier are what
\* they are after a successful write: unchanged by the save of step 5 and
\* by a suppressed alert, and set, incremented and extended by one record
\* by a delivered alert.
C36_WriteFailureIsNonFatal ==
    /\ [][(evidence' # evidence /\ main_pc = "poll") =>
            /\ main_pc' = "trigger"
            /\ UNCHANGED <<last_alert_time, alert_count, notified>>]_vars
    /\ [][(evidence' # evidence /\ main_pc = "trigger") =>
            /\ main_pc' = "display"
            /\ IF now - last_alert_time < alert_cooldown_seconds
               THEN UNCHANGED <<last_alert_time, alert_count, notified>>
               ELSE /\ last_alert_time' = now
                    /\ alert_count' = alert_count + 1
                    /\ notified' = Append(notified, now)]_vars
    /\ [](main_pc = "trigger" => ENABLED MainTriggerAlert)
    /\ [](main_pc = "display" => ENABLED MainDisplay)

\* Both writes of the first danger result failed; the alert was delivered
\* and counted all the same, and the loop has come to its next iteration.
C36_Witness ==
    /\ main_pc = "poll"
    /\ Len(evidence) = 2
    /\ ~evidence[1].written
    /\ ~evidence[2].written
    /\ alert_count = 1
    /\ Len(notified) = 1
    /\ last_alert_time = notified[1]
    /\ Len(uploads) = 1

\* ------------------------------------------------------------- counters
\* The danger results that the main loop has polled.
DangerPolled == {i \in 1..Len(polled) : polled[i].is_danger}

\* C37: in every reachable state of a session, alert_count <= number of
\* danger results polled <= analysis_count <= number of tasks submitted by
\* the main loop.
C37_CounterChain ==
    /\ alert_count <= Cardinality(DangerPolled)
    /\ Cardinality(DangerPolled) <= analysis_count
    /\ analysis_count <= Len(uploads)
    /\ Len(uploads) = submitted

\* Two tasks were submitted and both results polled, one a danger result
\* whose alert was delivered and one that is no danger, while the worker
\* is idle again.
C37_Witness ==
    /\ Len(uploads) = 2
    /\ analysis_count = 2
    /\ Cardinality(DangerPolled) = 1
    /\ alert_count = 1
    /\ main_pc = "display"
    /\ Len(polled) = 2
    /\ ~polled[2].is_danger

\* ------------------------------------------------------- worker threads
\* C38: for each dispatcher, at most one worker thread consumes the task
\* queue at any time, for every sequence of start and stop calls (start
\* called twice, start called after a stop whose join timed out while the
\* old worker was in a remote call): no two threads are in their loops.
C38_AtMostOneConsumer == Cardinality(LiveThreads) <= 1

\* ------------------------------------------------------------ is_running
\* C39: VideoPipeline.is_running() returns true only while the capture
\* thread is alive: once the capture loop has ended on its own (a file that
\* does not loop has ended, or a reconnect failed) it returns false.
C39_IsRunningOnlyWhileAlive == is_running => cap_pc # "exited"

\* ----------------------------------------------------- evidence names
\* The file name of an evidence image: the second, the alert counter, the
\* cooldown tag and the head of the reasoning.
FileName(e) == <<e.second, e.count, e.cooldown, e.reasoning>>

\* C40: every evidence image persisted during a session gets a file name
\* distinct from all earlier ones, so that none overwrites another (also
\* for two danger results handled within the same clock second and with
\* the same reasoning text).
C40_EvidenceNamesDistinct ==
    \A i, j \in 1..Len(evidence) :
        (i < j /\ evidence[i].written /\ evidence[j].written) =>
            FileName(evidence[i]) # FileName(evidence[j])

====
